---- MODULE Spec2Model ----
(***************************************************************************)
(* Streaming tool-call detection of flexo: the Aho-Corasick automaton, the *)
(* buffered processors (standard and whitespace-normalized), the manual    *)
(* detection strategy and the generation state machine of the streaming    *)
(* chat agent.  Text is a sequence of one-character strings; indices kept  *)
(* in the model are the 0-based indices of the Python source.              *)
(***************************************************************************)
EXTENDS Integers, Sequences, FiniteSets, TLC

\* ------------------------------------------------------------------ bounds
MaxChunkLen == 2      \* longest chunk handed to process_chunk
MaxFed == 4           \* characters fed to a processor between two resets
MaxResets == 1        \* reset_states calls on one processor
MaxIter == 1          \* largest configured max_streaming_iterations
MaxTurnIter == 2      \* the same, for the turns whose handlers and tools fail
MaxTurnFed == 2       \* characters the model emits in a generation of such a turn
MaxCounted == 4       \* stop chunks and caught errors are counted up to here
MaxFrags == 3         \* chunks the vendor strategy sees between two resets
MaxSearched == 4      \* characters passed to search_chunk between resets
MaxSearchChunk == 3   \* longest text passed to one search_chunk call
MaxText == 4          \* longest text passed to normalize_and_map on its own
MaxTasks == 3         \* tasks that call get_token on one token manager
MaxExpiries == 1      \* times a token ages into the refresh buffer
MaxJsonLen == 3       \* longest text passed to find_json_content
MaxOption == 2        \* largest indent_size, preview_length and max_length
MaxRetries == 3       \* largest configured max_retries

Alphabet == {"a", "b", " "}

\* None of an Optional[str] field, distinct from every text
NoneStr == <<"None">>
NoneName == "None"

Min(x, y) == IF x <= y THEN x ELSE y
Max(x, y) == IF x >= y THEN x ELSE y

\* str.isspace() on the characters of the alphabet
isspace(ch) == ch = " "

\* Python s[:k]
SliceTo(s, k) ==
    IF k >= 0 THEN SubSeq(s, 1, Min(k, Len(s)))
    ELSE SubSeq(s, 1, Max(0, Len(s) + k))

\* Python s[k:]
SliceFrom(s, k) ==
    IF k >= 0 THEN SubSeq(s, Min(k, Len(s)) + 1, Len(s))
    ELSE SubSeq(s, Max(0, Len(s) + k) + 1, Len(s))

\* Python list[i] is defined for -len <= i < len
IndexOk(lst, i) == -Len(lst) <= i /\ i < Len(lst)

\* the index itself in place of the entry of the list
NormalizedOffset(lst, i) == i

\* Python list[i], negative i counting from the end
PyIndex(lst, i) == IF i >= 0 THEN lst[i + 1] ELSE lst[Len(lst) + i + 1]

\* truthiness of an Optional[str]
Truthy(s) == s # NoneStr /\ s # <<>>

\* the text an Optional[str] contributes to a concatenation
Str(s) == IF s = NoneStr THEN <<>> ELSE s

\* --------------------------------------------------- pattern_utils.py
RECURSIVE NormalizeFrom(_, _, _, _)
NormalizeFrom(text, k, normalized_chars, index_map) ==
    IF k > Len(text)
    THEN [normalized_text |-> normalized_chars, index_map |-> index_map]
    ELSE IF ~isspace(text[k])
         THEN NormalizeFrom(text, k + 1, Append(normalized_chars, text[k]),
                            Append(index_map, k - 1))
         ELSE NormalizeFrom(text, k + 1, normalized_chars, index_map)

\* the index map counting characters from one
NormalizeFromOne(text) ==
    LET r == NormalizeFrom(text, 1, <<>>, <<>>)
    IN [r EXCEPT !.index_map = [k \in DOMAIN @ |-> @[k] + 1]]

normalize_and_map(text) == NormalizeFrom(text, 1, <<>>, <<>>)

\* ---------------------------------------------------- aho_corasick.py
NoEdge == -1
NoEdges == [ch \in Alphabet |-> NoEdge]

NumStates(m) == Cardinality(DOMAIN m.fail)

\* the root state appended by _build_machine before any pattern is inserted
RootMachine ==
    [next_states |-> [s \in {0} |-> NoEdges],
     fail |-> [s \in {0} |-> 0],
     output |-> [s \in {0} |-> <<>>]]

\* _insert: the loop from character k of pattern_str, at trie state cur
RECURSIVE InsertFrom(_, _, _, _, _)
InsertFrom(m, pattern_str, k, cur, pattern_name) ==
    IF k > Len(pattern_str)
    THEN [m EXCEPT !.output[cur] = Append(@, pattern_name)]
    ELSE LET ch == pattern_str[k] IN
         IF m.next_states[cur][ch] = NoEdge
         THEN LET new == NumStates(m)
                  grown ==
                    [next_states |->
                        [s \in 0..new |->
                            IF s = new THEN NoEdges
                            ELSE IF s = cur
                                 THEN [m.next_states[cur] EXCEPT ![ch] = new]
                                 ELSE m.next_states[s]],
                     fail |-> [s \in 0..new |-> IF s = new THEN 0 ELSE m.fail[s]],
                     output |-> [s \in 0..new |->
                                    IF s = new THEN <<>> ELSE m.output[s]]]
              IN InsertFrom(grown, pattern_str, k + 1, new, pattern_name)
         ELSE InsertFrom(m, pattern_str, k + 1, m.next_states[cur][ch],
                         pattern_name)

insert(m, pattern_str, pattern_name) ==
    InsertFrom(m, pattern_str, 1, 0, pattern_name)

\* the trie of all patterns, inserted in the order of the patterns dict
RECURSIVE BuildTrie(_, _, _)
BuildTrie(m, pats, k) ==
    IF k > Len(pats) THEN m
    ELSE BuildTrie(insert(m, pats[k].str, pats[k].name), pats, k + 1)

\* next_states[state].items(): the children in insertion order, which is the
\* order of their state ids
RECURSIVE SortedSeq(_)
SortedSeq(S) ==
    IF S = {} THEN <<>>
    ELSE LET lo == CHOOSE x \in S : \A y \in S : x <= y
         IN <<lo>> \o SortedSeq(S \ {lo})

Children(m, state) ==
    SortedSeq({m.next_states[state][ch] : ch \in Alphabet} \ {NoEdge})

EdgeChar(m, state, nxt_state) ==
    CHOOSE ch \in Alphabet : m.next_states[state][ch] = nxt_state

\* while f > 0 and char not in next_states[f]: f = fail[f]
RECURSIVE FollowFail(_, _, _)
FollowFail(m, f, ch) ==
    IF f > 0 /\ m.next_states[f][ch] = NoEdge
    THEN FollowFail(m, m.fail[f], ch)
    ELSE f

\* next_states[f].get(char, 0)
GetOrRoot(m, f, ch) ==
    IF m.next_states[f][ch] = NoEdge THEN 0 ELSE m.next_states[f][ch]

\* the body of the BFS loop for the children of one dequeued state
RECURSIVE LinkChildren(_, _, _)
LinkChildren(m, state, kids) ==
    IF kids = <<>> THEN m
    ELSE LET nxt_state == Head(kids)
             ch == EdgeChar(m, state, nxt_state)
             f == GetOrRoot(m, FollowFail(m, m.fail[state], ch), ch)
         IN LinkChildren([m EXCEPT !.fail[nxt_state] = f,
                                   !.output[nxt_state] = @ \o m.output[f]],
                         state, Tail(kids))

RECURSIVE FailureBFS(_, _)
FailureBFS(m, queue) ==
    IF queue = <<>> THEN m
    ELSE LET state == Head(queue)
             kids == Children(m, state)
         IN FailureBFS(LinkChildren(m, state, kids), Tail(queue) \o kids)

build_machine(pats) ==
    LET trie == BuildTrie(RootMachine, pats, 1)
    IN FailureBFS(trie, Children(trie, 0))

\* one step of search_chunk: follow fail links, then take the edge or the root
Step(m, s, ch) == GetOrRoot(m, FollowFail(m, s, ch), ch)

\* only the pattern that ends at the node itself, none ending inside it
ReportsOwnPatternOnly(m, s, i) ==
    IF m.output[s] = <<>> THEN <<>> ELSE <<<<i, m.output[s][1]>>>>

\* the (i, pattern_name) pairs search_chunk appends at index i in state s
Reports(m, s, i) == [j \in 1..Len(m.output[s]) |-> <<i, m.output[s][j]>>]

RECURSIVE SearchFrom(_, _, _, _, _)
SearchFrom(m, s, chunk, k, found_patterns) ==
    IF k > Len(chunk)
    THEN [found |-> found_patterns, current_state |-> s]
    ELSE LET t == Step(m, s, chunk[k])
         IN SearchFrom(m, t, chunk, k + 1,
                       found_patterns \o Reports(m, t, k - 1))

\* search_chunk forgetting where the previous call stopped
SearchChunkFromRoot(m, s, chunk) == SearchFrom(m, 0, chunk, 1, <<>>)

search_chunk(m, s, chunk) == SearchFrom(m, s, chunk, 1, <<>>)

\* reset_state leaving the cursor where it is
ResetStateKeepsCursor(s) == s

\* AhoCorasickAutomaton.reset_state: the new current_state
reset_state_result(s) == 0

\* ------------------------------------------------ pattern sets (dict order)
Pat(name, str) == [name |-> name, str |-> str]

PatternSets ==
    { <<Pat("p1", <<"a", "b">>)>>,
      <<Pat("p1", <<"a", "a">>)>>,
      <<Pat("p1", <<"a", "b", "b">>), Pat("p2", <<"b">>)>>,
      <<Pat("p1", <<"a", "b">>), Pat("p2", <<"a", "b", "b">>)>>,
      <<Pat("p1", <<"a", " ", "b">>)>> }

Variants == {"standard", "normalized"}

\* self.automaton.patterns[pattern_name]
PatternStr(pats, pattern_name) ==
    LET k == CHOOSE j \in 1..Len(pats) : pats[j].name = pattern_name
    IN pats[k].str

\* AhoCorasickAutomatonNormalized.__init__: normalized_patterns
normalized_patterns(pats) ==
    [k \in 1..Len(pats) |->
        Pat(pats[k].name, normalize_and_map(pats[k].str).normalized_text)]

\* AhoCorasickAutomatonNormalized.get_pattern_length
get_pattern_length(pats, pattern_name) ==
    Len(PatternStr(normalized_patterns(pats), pattern_name))

\* max(len(p) for p in patterns.values())
RECURSIVE MaxLenFrom(_, _)
MaxLenFrom(pats, k) ==
    IF k > Len(pats) THEN 0
    ELSE Max(Len(pats[k].str), MaxLenFrom(pats, k + 1))

\* the patterns the automaton of a variant is built from
AutomatonPatterns(v, pats) ==
    IF v = "normalized" THEN normalized_patterns(pats) ELSE pats

max_pattern_len_of(v, pats) == MaxLenFrom(AutomatonPatterns(v, pats), 1)

\* ------------------------------------------------ data_models/streaming.py
ToolCallMessage == "Tool call detected."

\* PatternMatchResult(): every field at its default
EmptyResult ==
    [matched |-> FALSE, pattern_name |-> NoneName, output |-> NoneStr,
     text_with_tool_call |-> NoneStr, tool_call_message |-> NoneName]

MatchResult(pattern_name, out, rest) ==
    [matched |-> TRUE, pattern_name |-> pattern_name, output |-> out,
     text_with_tool_call |-> rest, tool_call_message |-> ToolCallMessage]

\* ---------------------------------------- buffered_processor_standard.py
\* keep_len held back one character too many
KeepLenWholePattern(max_len, n) == Min(max_len, n)

\* keep_len = min(self.max_pattern_len - 1, len(...)), the same in both variants
keep_len_of(max_len, n) == Min(max_len - 1, n)

\* min(matches, key=lambda x: x[0]): the first element with the least end
EarliestByEnd(matches) ==
    LET k == CHOOSE j \in 1..Len(matches) :
                /\ \A i \in 1..Len(matches) : matches[j][1] <= matches[i][1]
                /\ \A i \in 1..(j - 1) : matches[i][1] > matches[j][1]
    IN matches[k]

\* process_chunk_impl of AhoCorasickBufferedProcessor; the returned record
\* carries the result, the new trailing buffer and the automaton cursor
StandardImpl(pats, m, cs, max_pattern_len, combined_original) ==
    LET sr == search_chunk(m, cs, combined_original)
        matches == sr.found
    IN IF matches = <<>>
       THEN LET keep_len == keep_len_of(max_pattern_len, Len(combined_original))
                safe_text == IF keep_len > 0
                             THEN SliceTo(combined_original, -keep_len)
                             ELSE combined_original
                new_trailing == IF keep_len > 0
                                THEN SliceFrom(combined_original, -keep_len)
                                ELSE <<>>
            IN [raised |-> FALSE,
                result |-> [EmptyResult EXCEPT !.output = safe_text],
                new_trailing |-> new_trailing,
                current_state |-> sr.current_state]
       ELSE LET earliest == EarliestByEnd(matches)
                pattern_name == earliest[2]
                match_start == earliest[1] - Len(PatternStr(pats, pattern_name)) + 1
            IN [raised |-> FALSE,
                result |-> MatchResult(pattern_name,
                                       SliceTo(combined_original, match_start),
                                       SliceFrom(combined_original, match_start)),
                new_trailing |-> <<>>,
                current_state |-> 0]

\* -------------------------------------- buffered_processor_normalized.py
\* the loop over matches keeps the first match with the least original end
EarliestByOriginalEnd(matches, index_map) ==
    LET k == CHOOSE j \in 1..Len(matches) :
                /\ \A i \in 1..Len(matches) :
                      PyIndex(index_map, matches[j][1]) <= PyIndex(index_map, matches[i][1])
                /\ \A i \in 1..(j - 1) :
                      PyIndex(index_map, matches[i][1]) > PyIndex(index_map, matches[j][1])
    IN matches[k]

\* process_chunk_impl of AhoCorasickBufferedProcessorNormalized; raised is the
\* IndexError of index_map[norm_start_idx], which leaves the trailing buffer
\* untouched and the cursor where search_chunk left it
NormalizedImpl(pats, m, cs, max_pattern_len, combined_original) ==
    LET nm == normalize_and_map(combined_original)
        norm_combined == nm.normalized_text
        index_map == nm.index_map
        sr == search_chunk(m, cs, norm_combined)
        matches == sr.found
        NormStart(mt) == mt[1] - get_pattern_length(pats, mt[2]) + 1
    IN IF matches = <<>>
       THEN LET keep_len == keep_len_of(max_pattern_len, Len(norm_combined))
                orig_keep_start == index_map[Len(norm_combined) - keep_len + 1]
                safe_text == IF keep_len > 0
                             THEN SliceTo(combined_original, orig_keep_start)
                             ELSE combined_original
                new_trailing == IF keep_len > 0
                                THEN SliceFrom(combined_original, orig_keep_start)
                                ELSE <<>>
            IN [raised |-> FALSE,
                result |-> [EmptyResult EXCEPT !.output = safe_text],
                new_trailing |-> new_trailing,
                current_state |-> sr.current_state]
       ELSE IF \E j \in 1..Len(matches) : ~IndexOk(index_map, NormStart(matches[j]))
       THEN [raised |-> TRUE,
             result |-> EmptyResult,
             new_trailing |-> <<>>,
             current_state |-> sr.current_state]
       ELSE LET earliest == EarliestByOriginalEnd(matches, index_map)
                original_start == PyIndex(index_map, NormStart(earliest))
            IN [raised |-> FALSE,
                result |-> MatchResult(earliest[2],
                                       SliceTo(combined_original, original_start),
                                       SliceFrom(combined_original, original_start)),
                new_trailing |-> <<>>,
                current_state |-> 0]

process_chunk_impl(v, pats, m, cs, max_pattern_len, combined_original) ==
    IF v = "normalized"
    THEN NormalizedImpl(pats, m, cs, max_pattern_len, combined_original)
    ELSE StandardImpl(pats, m, cs, max_pattern_len, combined_original)

\* ------------------------------------------------------------------ state
VARIABLES
    variant,                   \* which processor class was constructed
    patterns,                  \* raw_patterns, in dict order
    automaton,                 \* next_states, fail and output of the automaton
    current_state,             \* AhoCorasickAutomaton.current_state
    max_pattern_len,           \* the processor's max_pattern_len
    trailing_buffer_original,  \* BaseBufferedProcessor.trailing_buffer_original
    fed,                       \* chunks passed to process_chunk since the last
                               \* reset_states, concatenated
    emitted,                   \* output fields returned since then, concatenated
    matchCount,                \* calls that reported matched since then
    last,                      \* the last call and what it returned
    resets,                    \* reset_states calls so far
    fresh_state,               \* cursor of a processor constructed at the last
    fresh_trailing,            \* reset_states and fed the same calls, its
    fresh_last                 \* trailing buffer and its last return value

procVars ==
    <<variant, patterns, automaton, current_state, max_pattern_len,
      trailing_buffer_original, fed, emitted, matchCount, last, resets,
      fresh_state, fresh_trailing, fresh_last>>

RECURSIVE SeqsUpTo(_)
SeqsUpTo(n) ==
    IF n = 0 THEN {<<>>}
    ELSE LET shorter == SeqsUpTo(n - 1)
         IN shorter \cup {Append(s, ch) : s \in {t \in shorter : Len(t) = n - 1},
                                          ch \in Alphabet}

\* the chunks of a stream: every non-empty text of at most MaxChunkLen characters
Chunks == SeqsUpTo(MaxChunkLen) \ {<<>>}

NoCall ==
    [op |-> "none", chunk |-> <<>>, combined |-> <<>>, cs_before |-> 0,
     trailing_before |-> <<>>, raised |-> FALSE, result |-> EmptyResult]

NoReturn == [raised |-> FALSE, result |-> EmptyResult]

\* __init__ of either processor: the automaton is built from the (normalized)
\* patterns and reset, the trailing buffer is empty
InitProcessor(v, pats) ==
    /\ variant = v
    /\ patterns = pats
    /\ automaton = build_machine(AutomatonPatterns(v, pats))
    /\ current_state = 0
    /\ max_pattern_len = max_pattern_len_of(v, pats)
    /\ trailing_buffer_original = <<>>
    /\ fed = <<>>
    /\ emitted = <<>>
    /\ matchCount = 0
    /\ last = NoCall
    /\ resets = 0
    /\ fresh_state = 0
    /\ fresh_trailing = <<>>
    /\ fresh_last = NoReturn

\* BaseBufferedProcessor.process_chunk
ProcessChunkEffect(chunk) ==
    LET combined_original == trailing_buffer_original \o chunk
        r == process_chunk_impl(variant, patterns, automaton, current_state,
                                max_pattern_len, combined_original)
        fr == process_chunk_impl(variant, patterns, automaton, fresh_state,
                                 max_pattern_len, fresh_trailing \o chunk)
    IN /\ current_state' = r.current_state
       /\ trailing_buffer_original' =
             IF r.raised THEN trailing_buffer_original ELSE r.new_trailing
       /\ fed' = fed \o chunk
       /\ emitted' = emitted \o Str(r.result.output)
       /\ matchCount' = matchCount + (IF r.result.matched THEN 1 ELSE 0)
       /\ last' = [op |-> "chunk", chunk |-> chunk,
                   combined |-> combined_original,
                   cs_before |-> current_state,
                   trailing_before |-> trailing_buffer_original,
                   raised |-> r.raised, result |-> r.result]
       /\ fresh_state' = fr.current_state
       /\ fresh_trailing' = IF fr.raised THEN fresh_trailing ELSE fr.new_trailing
       /\ fresh_last' = [raised |-> fr.raised, result |-> fr.result]
       /\ UNCHANGED <<variant, patterns, automaton, max_pattern_len, resets>>

\* BaseBufferedProcessor.flush_buffer
FlushResult(trailing) ==
    IF trailing # <<>> THEN [EmptyResult EXCEPT !.output = trailing]
    ELSE EmptyResult

FlushBufferEffect ==
    LET result == FlushResult(trailing_buffer_original)
    IN /\ trailing_buffer_original' = <<>>
       /\ emitted' = emitted \o Str(result.output)
       /\ last' = [op |-> "flush", chunk |-> <<>>,
                   combined |-> trailing_buffer_original,
                   cs_before |-> current_state,
                   trailing_before |-> trailing_buffer_original,
                   raised |-> FALSE, result |-> result]
       /\ fresh_trailing' = <<>>
       /\ fresh_last' = [raised |-> FALSE, result |-> FlushResult(fresh_trailing)]
       /\ UNCHANGED <<variant, patterns, automaton, current_state,
                      max_pattern_len, fed, matchCount, resets, fresh_state>>

\* BaseBufferedProcessor.reset_states, which neither subclass overrides
ResetStatesEffect ==
    /\ trailing_buffer_original' = <<>>
    /\ fed' = <<>>
    /\ emitted' = <<>>
    /\ matchCount' = 0
    /\ last' = [NoCall EXCEPT !.op = "reset"]
    /\ resets' = resets + 1
    /\ fresh_state' = 0
    /\ fresh_trailing' = <<>>
    /\ fresh_last' = NoReturn
    /\ UNCHANGED <<variant, patterns, automaton, current_state, max_pattern_len>>

\* ------------------------------------- manual_detection_strategy.py
NO_MATCH == "no_match"
PARTIAL_MATCH == "partial_match"
COMPLETE_MATCH == "complete_match"

\* the fallback content of finalize_detection when the parser reports an error
ParseApology == <<"Sorry, but I was unable to complete your request. Please try again.">>

\* BaseToolCallParser.parse seen from the strategy: an error dictionary (0) or
\* a non-empty list of n tool calls
MaxToolCalls == 2
ParseError == 0
ParseOutcomes == 0..MaxToolCalls

DetectionResult(st, content, tool_calls) ==
    [state |-> st, content |-> content, tool_calls |-> tool_calls]

\* detect_chunk forwarding the processor's output before it looks at in_tool_call
DetectChunkForwardsFirst(in_tc, buffer, chunk_content, pr) ==
    IF pr.matched
    THEN [detection |-> DetectionResult(PARTIAL_MATCH, <<>>, 0),
          in_tool_call |-> TRUE,
          tool_call_buffer |-> pr.text_with_tool_call]
    ELSE IF Truthy(pr.output)
    THEN [detection |-> DetectionResult(PARTIAL_MATCH, pr.output, 0),
          in_tool_call |-> in_tc,
          tool_call_buffer |-> IF in_tc THEN buffer \o chunk_content ELSE buffer]
    ELSE IF in_tc
    THEN [detection |-> DetectionResult(PARTIAL_MATCH, NoneStr, 0),
          in_tool_call |-> in_tc,
          tool_call_buffer |-> buffer \o chunk_content]
    ELSE [detection |-> DetectionResult(NO_MATCH, NoneStr, 0),
          in_tool_call |-> in_tc,
          tool_call_buffer |-> buffer]

\* detect_chunk after process_chunk returned pr for a chunk with content
detect_chunk_result(in_tc, buffer, chunk_content, pr) ==
    IF pr.matched
    THEN [detection |-> DetectionResult(PARTIAL_MATCH, <<>>, 0),
          in_tool_call |-> TRUE,
          tool_call_buffer |-> pr.text_with_tool_call]
    ELSE IF in_tc
    THEN [detection |-> DetectionResult(PARTIAL_MATCH, NoneStr, 0),
          in_tool_call |-> in_tc,
          tool_call_buffer |-> buffer \o chunk_content]
    ELSE IF Truthy(pr.output)
    THEN [detection |-> DetectionResult(PARTIAL_MATCH, pr.output, 0),
          in_tool_call |-> in_tc,
          tool_call_buffer |-> buffer]
    ELSE [detection |-> DetectionResult(NO_MATCH, NoneStr, 0),
          in_tool_call |-> in_tc,
          tool_call_buffer |-> buffer]

\* finalize_detection keeping quiet about a parse failure
FinalizeWithoutApology(in_tc, buffer, final_result, parsed) ==
    IF in_tc
    THEN [detection |->
             IF parsed = ParseError
             THEN DetectionResult(NO_MATCH, NoneStr, 0)
             ELSE DetectionResult(COMPLETE_MATCH, NoneStr, parsed),
          tool_call_buffer |-> IF Truthy(final_result.output)
                               THEN buffer \o final_result.output
                               ELSE buffer]
    ELSE [detection |->
             IF Truthy(final_result.output)
             THEN DetectionResult(PARTIAL_MATCH, final_result.output, 0)
             ELSE DetectionResult(NO_MATCH, NoneStr, 0),
          tool_call_buffer |-> buffer]

\* finalize_detection after flush_buffer returned final_result; parsed is what
\* the parser returns for the accumulated buffer
finalize_detection_result(in_tc, buffer, final_result, parsed) ==
    IF in_tc
    THEN LET full == IF Truthy(final_result.output)
                     THEN buffer \o final_result.output ELSE buffer
         IN [detection |->
                IF parsed = ParseError
                THEN DetectionResult(NO_MATCH, ParseApology, 0)
                ELSE DetectionResult(COMPLETE_MATCH, NoneStr, parsed),
             tool_call_buffer |-> full]
    ELSE [detection |->
             IF Truthy(final_result.output)
             THEN DetectionResult(PARTIAL_MATCH, final_result.output, 0)
             ELSE DetectionResult(NO_MATCH, NoneStr, 0),
          tool_call_buffer |-> buffer]

\* ------------------------------------------- chat_agent_streaming.py
STREAMING == "streaming"
TOOL_DETECTION == "detection"
EXECUTING_TOOLS == "executing"
INTERMEDIATE == "intermediate"
COMPLETING == "completing"
COMPLETED == "completed"

VARIABLES
    context_state,             \* context.current_state
    streaming_entry_count,     \* context.streaming_entry_count
    max_streaming_iterations,  \* context.max_streaming_iterations
    current_tool_call,         \* number of calls in context.current_tool_call
    pc,                        \* "idle" between handlers, "stream" inside the
                               \* async for of _handle_streaming
    in_tool_call,              \* ManualToolCallDetectionStrategy.in_tool_call
    tool_call_buffer,          \* ManualToolCallDetectionStrategy.tool_call_buffer
    accumulated_content,       \* the local list of _handle_streaming, joined
    text_events,               \* text chunks yielded in this generation phase
    stop_events,               \* stop chunks yielded in this turn
    gen_opened,                \* times the model stream was opened in this turn
    all_tool,                  \* every generation so far ended in a tool call
    match_seen,                \* a detect_chunk of this session saw a match
    last_detection,            \* the last DetectionResult and the call it is of
    prev_state,                \* context.current_state before the last step
    results,                   \* the slots asyncio.gather fills, by call
    tool_entries,              \* conversation_history entries appended by the
                               \* last run of _handle_tool_execution
    finished_out_of_order,     \* a run_tool task of the round finished before
                               \* the task of an earlier call
    phase_messages,            \* assistant text messages this generation phase
                               \* appended to conversation_history
    event_after_stop,          \* the last step yielded a text or status chunk
                               \* though a stop chunk came before it in the turn
    errors_raised,             \* exceptions raised inside a handler in this turn
    apology_events,            \* apology stop chunks the error wrapper yielded
    upstream_failed,           \* the model stream raised in this turn
    stream_budget,             \* most characters the model emits in a generation
    tool_kinds                 \* how the registered tools can behave

agentVars ==
    <<context_state, streaming_entry_count, max_streaming_iterations,
      current_tool_call, pc, in_tool_call, tool_call_buffer,
      accumulated_content, text_events, stop_events, gen_opened, all_tool,
      match_seen, last_detection, prev_state, results, tool_entries,
      finished_out_of_order, phase_messages, event_after_stop,
      errors_raised, apology_events, upstream_failed, stream_budget,
      tool_kinds>>

VARIABLES
    turns,                     \* two stream_step runs on one agent: where each
                               \* stands in _handle_streaming, the chunks its
                               \* model sent and the text events it yielded
    partial_name,              \* VendorToolCallDetectionStrategy.partial_name
    partial_args,              \* VendorToolCallDetectionStrategy.partial_args
    collected_tool_calls,      \* ...collected_tool_calls
    found_complete_call,       \* ...found_complete_call
    name_fragments,            \* the name fragments received since the last
    args_fragments,            \* reset, and the argument fragments, in order
    vendor_chunks,             \* chunks the vendor strategy saw since then
    vendor_last                \* what its last call returned

VARIABLES
    searched,                  \* text passed to search_chunk since the automaton
                               \* was last at the root by reset_state
    search_found,              \* matches returned since then, each end index
                               \* shifted by the length of the chunks before it
    search_last,               \* the last call on the automaton and its result
    search_resets              \* reset_state calls so far

automatonVars == <<searched, search_found, search_last, search_resets>>

VARIABLES
    construction               \* which class was constructed, and whether its
                               \* __init__ raised

constructionVars == <<construction>>

VARIABLES
    normalize_text,            \* the text last passed to normalize_and_map
    normalize_returned         \* and what the function returned

normalizeVars == <<normalize_text, normalize_returned>>

VARIABLES
    access_token,              \* the manager's access_token, 0 for None
    token_fresh,               \* time.time() <= expiry_time - refresh_buffer
    lock_holder,               \* the task inside async with self.lock, 0 if none
    lock_waiters,              \* the tasks suspended in lock.acquire, in order
    task_pc,                   \* where each task stands in get_token
    task_path,                 \* how each task came to its return
    task_token,                \* what get_token returned to each task
    requests_sent,             \* POST requests to the token endpoint so far
    refresh_history,           \* the outcomes of the requests, in order
    expiries                   \* times the token aged into the refresh buffer

tokenVars ==
    <<access_token, token_fresh, lock_holder, lock_waiters, task_pc,
      task_path, task_token, requests_sent, refresh_history, expiries>>

VARIABLES
    scan_text,                 \* the text last passed to find_json_content
    scan_returned              \* and the list it returned

scanVars == <<scan_text, scan_returned>>

VARIABLES
    extract_text,              \* the text last passed to extract
    extract_returned           \* and what it returned

extractVars == <<extract_text, extract_returned>>

VARIABLES
    format_args,               \* the arguments of the last format_json_to_document
    format_outcome,            \* "returned", or the exception it raised
    format_output              \* the lines of the document it returned

formatVars == <<format_args, format_outcome, format_output>>

VARIABLES
    pair_patterns,             \* raw_patterns of two processors, one of each
                               \* class, that receive the same calls
    pair_standard,             \* cursor and trailing buffer of the standard one
    pair_normalized,           \* and of the normalized one
    pair_last                  \* the last call and what each returned

pairVars == <<pair_patterns, pair_standard, pair_normalized, pair_last>>

VARIABLES
    rest_max_retries,          \* BaseRESTTool.max_retries
    rest_pc,                   \* where make_request stands
    rest_attempt,              \* attempt of the retry loop
    rest_responses,            \* what the requests sent so far have met
    rest_returned              \* what make_request returned

restVars ==
    <<rest_max_retries, rest_pc, rest_attempt, rest_responses, rest_returned>>

utilityVars == <<formatVars, pairVars, restVars>>

parserVars ==
    <<automatonVars, constructionVars, normalizeVars, tokenVars, scanVars,
      extractVars>>

libraryVars == <<parserVars, utilityVars>>

concurrentVars == <<turns>>

vendorVars ==
    <<partial_name, partial_args, collected_tool_calls, found_complete_call,
      name_fragments, args_fragments, vendor_chunks, vendor_last>>

vars == <<procVars, agentVars, concurrentVars, vendorVars, libraryVars>>

NoDetection ==
    [op |-> "none", after_match |-> FALSE,
     detection |-> DetectionResult(NO_MATCH, NoneStr, 0)]

\* StreamingChatAgent.__init__ and _initialize_context with the configured
\* max_streaming_iterations
InitAgentContext(n) ==
    /\ context_state = STREAMING
    /\ streaming_entry_count = 0
    /\ max_streaming_iterations = n
    /\ current_tool_call = 0
    /\ pc = "idle"
    /\ in_tool_call = FALSE
    /\ tool_call_buffer = <<>>
    /\ accumulated_content = <<>>
    /\ text_events = <<>>
    /\ stop_events = 0
    /\ gen_opened = 0
    /\ all_tool = TRUE
    /\ match_seen = FALSE
    /\ last_detection = NoDetection
    /\ prev_state = STREAMING
    /\ results = <<>>
    /\ tool_entries = <<>>
    /\ finished_out_of_order = FALSE
    /\ phase_messages = <<>>
    /\ event_after_stop = FALSE
    /\ errors_raised = 0
    /\ apology_events = 0
    /\ upstream_failed = FALSE

\* the model and the tools a turn runs against
InitEnvironment(budget, kinds) ==
    /\ stream_budget = budget
    /\ tool_kinds = kinds

\* one more event on a counter that stops at MaxCounted
Counted(n) == IF n < MaxCounted THEN n + 1 ELSE n

\* ManualToolCallDetectionStrategy.reset
StrategyReset ==
    /\ ResetStatesEffect
    /\ in_tool_call' = FALSE
    /\ tool_call_buffer' = <<>>
    /\ match_seen' = FALSE

\* the guard letting one entry too many through
LoopGuardTripsLate(count, maximum) == count > maximum + 1

\* the guard tripping one entry early
LoopGuardTripsAtMaximum(count, maximum) == count >= maximum

\* the guard of _handle_streaming on the re-entry counter
LoopGuardTrips(count, maximum) == count > maximum

\* a wrapper that lets the exceptions of every handler but Streaming through
CatchesInStreamingOnly(handler) == handler = STREAMING

\* the except clause of handle_streaming_errors around the handler of state
\* handler: it catches every Exception
WrapperCatches(handler) == TRUE

\* an exception leaves the body of a handler: the wrapper yields a stop chunk
\* with an apology and returns, and the loop of stream_step goes on
HandlerRaises(handler) ==
    /\ errors_raised' = Counted(errors_raised)
    /\ all_tool' = FALSE
    /\ IF WrapperCatches(handler)
       THEN /\ pc' = "idle"
            /\ stop_events' = Counted(stop_events)
            /\ apology_events' = Counted(apology_events)
       ELSE /\ pc' = "propagated"
            /\ UNCHANGED <<stop_events, apology_events>>

\* whether this step, which yields a text or status chunk or not (yields),
\* yields one after a stop chunk of the same turn
YieldedAfterStop(yields) == yields /\ stop_events >= 1

\* an AssistantMessage appended at the end of every generation phase
AssistantTextAlways(accumulated) == <<accumulated>>

\* the AssistantMessage that the end of a generation phase appends: one
\* with the joined content when accumulated_content is not empty
AssistantText(accumulated) ==
    IF accumulated # <<>> THEN <<accumulated>> ELSE <<>>

\* _handle_streaming up to the opening of the model stream
StreamingEnter ==
    /\ context_state = STREAMING
    /\ pc = "idle"
    /\ StrategyReset
    /\ streaming_entry_count' = streaming_entry_count + 1
    /\ prev_state' = context_state
    /\ accumulated_content' = <<>>
    /\ text_events' = <<>>
    /\ last_detection' = NoDetection
    /\ phase_messages' = <<>>
    /\ IF LoopGuardTrips(streaming_entry_count + 1, max_streaming_iterations)
       THEN /\ stop_events' = Counted(stop_events)
            /\ context_state' = COMPLETING
            /\ UNCHANGED <<pc, gen_opened>>
       ELSE /\ pc' = "stream"
            /\ gen_opened' = gen_opened + 1
            /\ UNCHANGED <<stop_events, context_state>>
    /\ event_after_stop' = FALSE
    /\ UNCHANGED <<max_streaming_iterations, current_tool_call, all_tool,
                   results, tool_entries, finished_out_of_order, errors_raised, apology_events,
                   upstream_failed, stream_budget, tool_kinds, concurrentVars, vendorVars, libraryVars>>

\* an exception inside _handle_streaming: context.current_state is left as
\* it was
StreamingFails ==
    /\ HandlerRaises(STREAMING)
    /\ prev_state' = context_state
    /\ event_after_stop' = FALSE
    /\ UNCHANGED <<context_state, streaming_entry_count,
                   max_streaming_iterations, current_tool_call,
                   accumulated_content, text_events, gen_opened, results,
                   tool_entries, finished_out_of_order, phase_messages, stream_budget, tool_kinds, concurrentVars, vendorVars, libraryVars>>

\* one iteration of the async for of _handle_streaming on a chunk without
\* content: detect_chunk returns NO_MATCH before the processor is called
StreamEmptyChunk ==
    /\ context_state = STREAMING
    /\ pc = "stream"
    /\ last_detection' = [op |-> "detect", after_match |-> match_seen,
                          detection |-> DetectionResult(NO_MATCH, NoneStr, 0)]
    /\ prev_state' = context_state
    /\ UNCHANGED procVars
    /\ event_after_stop' = FALSE
    /\ UNCHANGED <<context_state, streaming_entry_count,
                   max_streaming_iterations, current_tool_call, pc,
                   in_tool_call, tool_call_buffer, accumulated_content,
                   text_events, stop_events, gen_opened, all_tool, match_seen,
                   results, tool_entries, finished_out_of_order, phase_messages, errors_raised, apology_events,
                   upstream_failed, stream_budget, tool_kinds, concurrentVars, vendorVars, libraryVars>>

\* one iteration of the async for of _handle_streaming on a chunk with content
StreamChunk(chunk) ==
    /\ context_state = STREAMING
    /\ pc = "stream"
    /\ Len(fed) + Len(chunk) <= stream_budget
    /\ ProcessChunkEffect(chunk)
    /\ LET pr == process_chunk_impl(variant, patterns, automaton, current_state,
                                    max_pattern_len,
                                    trailing_buffer_original \o chunk)
           d == detect_chunk_result(in_tool_call, tool_call_buffer, chunk,
                                    pr.result)
       IN IF pr.raised
          THEN /\ StreamingFails
               /\ UNCHANGED <<in_tool_call, tool_call_buffer, match_seen,
                              last_detection, upstream_failed, stream_budget, tool_kinds, concurrentVars, vendorVars, libraryVars>>
          ELSE /\ in_tool_call' = d.in_tool_call
               /\ tool_call_buffer' = d.tool_call_buffer
               /\ match_seen' = (match_seen \/ pr.result.matched)
               /\ last_detection' = [op |-> "detect",
                                     after_match |-> match_seen,
                                     detection |-> d.detection]
               /\ accumulated_content' =
                     IF Truthy(d.detection.content)
                     THEN accumulated_content \o d.detection.content
                     ELSE accumulated_content
               /\ text_events' =
                     IF Truthy(d.detection.content)
                     THEN text_events \o d.detection.content
                     ELSE text_events
               /\ event_after_stop' = YieldedAfterStop(Truthy(d.detection.content))
               /\ prev_state' = context_state
               /\ UNCHANGED <<context_state, streaming_entry_count,
                              max_streaming_iterations, current_tool_call, pc,
                              stop_events, gen_opened, all_tool, results,
                              tool_entries, finished_out_of_order, phase_messages, errors_raised, apology_events,
                              upstream_failed, stream_budget, tool_kinds, concurrentVars, vendorVars, libraryVars>>

\* the model stream raises inside the async for of _handle_streaming
StreamRaise ==
    /\ context_state = STREAMING
    /\ pc = "stream"
    /\ StreamingFails
    /\ upstream_failed' = TRUE
    /\ UNCHANGED procVars
    /\ UNCHANGED <<in_tool_call, tool_call_buffer, match_seen, last_detection>>

\* _handle_complete_match handing the calls to ExecutingTools directly
CompleteMatchSkipsDetection == EXECUTING_TOOLS

\* the state _handle_complete_match moves to
AfterCompleteMatch == TOOL_DETECTION

\* the model stream ends: finalize_detection, then _handle_complete_match or
\* the final content, the stop chunk and the move to COMPLETING
StreamEnd ==
    /\ context_state = STREAMING
    /\ pc = "stream"
    /\ FlushBufferEffect
    /\ \E parsed \in ParseOutcomes :
          LET f == finalize_detection_result(in_tool_call, tool_call_buffer,
                                             FlushResult(trailing_buffer_original),
                                             parsed)
              content == f.detection.content
          IN /\ (~in_tool_call => parsed = ParseError)
             /\ tool_call_buffer' = f.tool_call_buffer
             /\ last_detection' = [op |-> "finalize",
                                   after_match |-> match_seen,
                                   detection |-> f.detection]
             /\ accumulated_content' =
                   IF Truthy(content) THEN accumulated_content \o content
                   ELSE accumulated_content
             /\ text_events' =
                   IF Truthy(content) THEN text_events \o content
                   ELSE text_events
             /\ phase_messages' =
                   AssistantText(IF Truthy(content)
                                 THEN accumulated_content \o content
                                 ELSE accumulated_content)
             /\ event_after_stop' = YieldedAfterStop(Truthy(content))
             /\ IF f.detection.state = COMPLETE_MATCH
                THEN /\ current_tool_call' = f.detection.tool_calls
                     /\ context_state' = AfterCompleteMatch
                     /\ UNCHANGED <<stop_events, all_tool>>
                ELSE /\ stop_events' = Counted(stop_events)
                     /\ context_state' = COMPLETING
                     /\ all_tool' = FALSE
                     /\ UNCHANGED current_tool_call
    /\ pc' = "idle"
    /\ prev_state' = context_state
    /\ UNCHANGED <<streaming_entry_count, max_streaming_iterations,
                   in_tool_call, gen_opened, match_seen, results,
                   tool_entries, finished_out_of_order, errors_raised, apology_events,
                   upstream_failed, stream_budget, tool_kinds, concurrentVars, vendorVars, libraryVars>>

\* what a handler that only signals and moves on leaves alone
HandlerFrame ==
    /\ UNCHANGED procVars
    /\ UNCHANGED <<streaming_entry_count, max_streaming_iterations,
                   current_tool_call, pc, in_tool_call, tool_call_buffer,
                   accumulated_content, text_events, stop_events, gen_opened,
                   all_tool, match_seen, last_detection, results,
                   tool_entries, finished_out_of_order, phase_messages, errors_raised, apology_events,
                   upstream_failed, stream_budget, tool_kinds, concurrentVars, vendorVars, libraryVars>>

\* what the error path of a handler other than Streaming leaves alone
RaisedFrame ==
    /\ UNCHANGED procVars
    /\ UNCHANGED <<streaming_entry_count, max_streaming_iterations,
                   current_tool_call, in_tool_call, tool_call_buffer,
                   accumulated_content, text_events, gen_opened, match_seen,
                   last_detection, upstream_failed, stream_budget, tool_kinds, concurrentVars, vendorVars, libraryVars>>

\* _handle_tool_detection
HandleToolDetection ==
    /\ context_state = TOOL_DETECTION
    /\ pc = "idle"
    /\ context_state' = EXECUTING_TOOLS
    /\ prev_state' = context_state
    /\ event_after_stop' = YieldedAfterStop(TRUE)
    /\ HandlerFrame

\* _handle_tool_detection raises while it builds its status chunk
\* (format_tool_calls serialises the arguments), after it has assigned
\* context.current_state
ToolDetectionRaises ==
    /\ context_state = TOOL_DETECTION
    /\ pc = "idle"
    /\ context_state' = EXECUTING_TOOLS
    /\ prev_state' = context_state
    /\ HandlerRaises(TOOL_DETECTION)
    /\ RaisedFrame
    /\ event_after_stop' = FALSE
    /\ UNCHANGED <<results, tool_entries, finished_out_of_order, phase_messages>>

\* how the tool of a call behaves: execute returns a ToolResponse, execute
\* raises, the registry does not know the name, or execute returns an object
\* whose result is not a string
ToolOutcomes == {"returns", "raises", "unknown", "unusable"}

\* a slot of asyncio.gather whose task has not finished
Pending == [outcome |-> "pending", value |-> "pending"]

\* run_tool: the payload dictionary, or the exception it caught and returned
run_tool_value(outcome) ==
    IF outcome = "returns" THEN "payload"
    ELSE IF outcome = "unusable" THEN "payload_not_str"
    ELSE "exception"

ToolCallsEntry(i) == [kind |-> "assistant_tool_calls", call |-> i]
ErrorEntry(i) == [kind |-> "assistant_error", call |-> i]
ToolResultEntry(i) == [kind |-> "tool", call |-> i]

\* a loop body that keeps the failure of a call out of the history
RecordSlotSkipsErrors(i, value) ==
    IF value = "payload" THEN <<ToolCallsEntry(i), ToolResultEntry(i)>>
    ELSE <<ToolCallsEntry(i)>>

\* a loop body that appends the outcome of a call before the call itself
RecordSlotOutcomeFirst(i, value) ==
    IF value = "exception" THEN <<ErrorEntry(i), ToolCallsEntry(i)>>
    ELSE IF value = "payload" THEN <<ToolResultEntry(i), ToolCallsEntry(i)>>
    ELSE <<ToolCallsEntry(i)>>

\* the body of the zip loop of _handle_tool_execution for call i: the entries
\* it appends (ToolMessage rejects a result that is not a string)
RecordSlot(i, value) ==
    IF value = "exception" THEN <<ToolCallsEntry(i), ErrorEntry(i)>>
    ELSE IF value = "payload" THEN <<ToolCallsEntry(i), ToolResultEntry(i)>>
    ELSE <<ToolCallsEntry(i)>>

\* the zip loop of _handle_tool_execution from call k on: what it appends
\* to the history and whether it raised
RECURSIVE RecordResults(_, _)
RecordResults(res, k) ==
    IF k > Len(res) THEN [entries |-> <<>>, raised |-> FALSE]
    ELSE IF res[k].value = "payload_not_str"
    THEN [entries |-> RecordSlot(k, res[k].value), raised |-> TRUE]
    ELSE LET rest == RecordResults(res, k + 1)
         IN [entries |-> RecordSlot(k, res[k].value) \o rest.entries,
             raised |-> rest.raised]

\* _handle_tool_execution up to asyncio.gather: one task for each call
ToolExecutionBegin ==
    /\ context_state = EXECUTING_TOOLS
    /\ pc = "idle"
    /\ pc' = "tools"
    /\ results' = [i \in 1..current_tool_call |-> Pending]
    /\ tool_entries' = <<>>
    /\ finished_out_of_order' = FALSE
    /\ prev_state' = context_state
    /\ UNCHANGED procVars
    /\ event_after_stop' = FALSE
    /\ UNCHANGED phase_messages
    /\ UNCHANGED <<context_state, streaming_entry_count,
                   max_streaming_iterations, current_tool_call, in_tool_call,
                   tool_call_buffer, accumulated_content, text_events,
                   stop_events, gen_opened, all_tool, match_seen,
                   last_detection, errors_raised, apology_events,
                   upstream_failed, stream_budget, tool_kinds, concurrentVars, vendorVars, libraryVars>>

\* the task run_tool of call i finishes, in any order with the other tasks
run_tool(i) ==
    /\ pc = "tools"
    /\ i \in 1..Len(results)
    /\ results[i] = Pending
    /\ \E outcome \in tool_kinds :
          results' = [results EXCEPT ![i] = [outcome |-> outcome,
                                             value |-> run_tool_value(outcome)]]
    /\ finished_out_of_order' =
          (finished_out_of_order \/ \E j \in 1..(i - 1) : results[j] = Pending)
    /\ prev_state' = context_state
    /\ UNCHANGED procVars
    /\ event_after_stop' = FALSE
    /\ UNCHANGED <<context_state, streaming_entry_count,
                   max_streaming_iterations, current_tool_call, pc,
                   in_tool_call, tool_call_buffer, accumulated_content,
                   text_events, stop_events, gen_opened, all_tool, match_seen,
                   last_detection, tool_entries, phase_messages, errors_raised,
                   apology_events, upstream_failed, stream_budget, tool_kinds, concurrentVars, vendorVars, libraryVars>>

\* the tool round going straight back to generation
ToolExecutionSkipsIntermediate == STREAMING

\* the state _handle_tool_execution moves to
AfterToolExecution == INTERMEDIATE

\* _handle_tool_execution once asyncio.gather has returned: the zip loop,
\* then the move to INTERMEDIATE; when the loop raises the state stays
HandleToolExecution ==
    /\ context_state = EXECUTING_TOOLS
    /\ pc = "tools"
    /\ \A i \in 1..Len(results) : results[i] # Pending
    /\ LET recorded == RecordResults(results, 1)
       IN /\ tool_entries' = recorded.entries
          /\ event_after_stop' = YieldedAfterStop(~recorded.raised)
          /\ IF recorded.raised
             THEN /\ HandlerRaises(EXECUTING_TOOLS)
                  /\ UNCHANGED context_state
             ELSE /\ context_state' = AfterToolExecution
                  /\ pc' = "idle"
                  /\ UNCHANGED <<stop_events, all_tool, errors_raised,
                                 apology_events>>
    /\ results' = <<>>
    /\ UNCHANGED <<finished_out_of_order, phase_messages>>
    /\ prev_state' = context_state
    /\ RaisedFrame

\* _handle_intermediate
HandleIntermediate ==
    /\ context_state = INTERMEDIATE
    /\ pc = "idle"
    /\ StrategyReset
    /\ context_state' = STREAMING
    /\ tool_entries' = <<>>
    /\ finished_out_of_order' = FALSE
    /\ event_after_stop' = YieldedAfterStop(TRUE)
    /\ UNCHANGED phase_messages
    /\ prev_state' = context_state
    /\ UNCHANGED <<streaming_entry_count, max_streaming_iterations,
                   current_tool_call, pc, accumulated_content, text_events,
                   stop_events, gen_opened, all_tool, last_detection, results,
                   errors_raised, apology_events, upstream_failed, stream_budget, tool_kinds, concurrentVars, vendorVars, libraryVars>>

\* _handle_intermediate raises while it builds its status chunk, after the
\* reset and the assignment of context.current_state
IntermediateRaises ==
    /\ context_state = INTERMEDIATE
    /\ pc = "idle"
    /\ StrategyReset
    /\ context_state' = STREAMING
    /\ tool_entries' = <<>>
    /\ finished_out_of_order' = FALSE
    /\ event_after_stop' = FALSE
    /\ UNCHANGED phase_messages
    /\ prev_state' = context_state
    /\ HandlerRaises(INTERMEDIATE)
    /\ UNCHANGED <<streaming_entry_count, max_streaming_iterations,
                   current_tool_call, accumulated_content, text_events,
                   gen_opened, last_detection, results, upstream_failed, stream_budget, tool_kinds, concurrentVars, vendorVars, libraryVars>>

\* _handle_completing and the assignment of COMPLETED in stream_step
HandleCompleting ==
    /\ context_state = COMPLETING
    /\ pc = "idle"
    /\ stop_events' = Counted(stop_events)
    /\ context_state' = COMPLETED
    /\ prev_state' = context_state
    /\ UNCHANGED procVars
    /\ event_after_stop' = FALSE
    /\ UNCHANGED <<streaming_entry_count, max_streaming_iterations,
                   current_tool_call, pc, in_tool_call, tool_call_buffer,
                   accumulated_content, text_events, gen_opened, all_tool,
                   match_seen, last_detection, results, tool_entries, finished_out_of_order, phase_messages, errors_raised, apology_events, upstream_failed, stream_budget, tool_kinds, concurrentVars, vendorVars, libraryVars>>

\* _handle_completing raises: the wrapper yields its apology, and stream_step
\* assigns COMPLETED after the handler's generator is exhausted
CompletingRaises ==
    /\ context_state = COMPLETING
    /\ pc = "idle"
    /\ context_state' = IF WrapperCatches(COMPLETING) THEN COMPLETED
                        ELSE context_state
    /\ prev_state' = context_state
    /\ HandlerRaises(COMPLETING)
    /\ RaisedFrame
    /\ event_after_stop' = FALSE
    /\ UNCHANGED <<results, tool_entries, finished_out_of_order, phase_messages>>

\* ------------------------------------ vendor_detection_strategy.py
\* what a chunk of the provider carries: a fragment of the function name, a
\* fragment of the argument text ("" when absent), delta.content and
\* finish_reason
NameFragments == {<<>>, <<"a">>, <<"b">>}
ArgsFragments == {<<>>, <<"{">>, <<"}">>, <<"1">>}
TextContents == {<<>>, <<"a">>}
FinishReasons == {"none", "tool_calls", "stop"}

IsDigits(s) == s # <<>> /\ \A k \in 1..Len(s) : s[k] = "1"

RECURSIVE DecimalValue(_)
DecimalValue(s) ==
    IF s = <<>> THEN 0
    ELSE 10 * DecimalValue(SubSeq(s, 1, Len(s) - 1)) + 1

\* json.loads on a text over the characters { } 1: the empty object, a
\* number, or JSONDecodeError
json_loads(s) ==
    IF s = <<"{", "}">> THEN [kind |-> "dict", number |-> 0, raw |-> <<>>]
    ELSE IF IsDigits(s)
    THEN [kind |-> "int", number |-> DecimalValue(s), raw |-> <<>>]
    ELSE [kind |-> "JSONDecodeError", number |-> 0, raw |-> <<>>]

\* parsed_args without the except json.JSONDecodeError branch
ParsedArgsWithoutFallback(args) ==
    IF args = <<>> THEN [kind |-> "dict", number |-> 0, raw |-> <<>>]
    ELSE json_loads(args)

\* parsed_args of detect_chunk: {} for no argument text, the parsed value,
\* or the raw text under _malformed when it does not parse
parsed_args_of(args) ==
    IF args = <<>> THEN [kind |-> "dict", number |-> 0, raw |-> <<>>]
    ELSE IF json_loads(args).kind = "JSONDecodeError"
    THEN [kind |-> "dict_malformed", number |-> 0, raw |-> args]
    ELSE json_loads(args)

\* FunctionDetail declares arguments: Dict, so a parsed value of another
\* type fails validation
ValidArguments(parsed) == parsed.kind \in {"dict", "dict_malformed"}

VendorToolCall(name, parsed) == [name |-> name, arguments |-> parsed]

NoVendorCall ==
    [op |-> "none", finish |-> "none", raised |-> FALSE,
     detection |-> DetectionResult(NO_MATCH, NoneStr, <<>>)]

\* VendorToolCallDetectionStrategy.__init__, which ends with reset()
InitVendor ==
    /\ partial_name = NoneStr
    /\ partial_args = <<>>
    /\ collected_tool_calls = <<>>
    /\ found_complete_call = FALSE
    /\ name_fragments = <<>>
    /\ args_fragments = <<>>
    /\ vendor_chunks = 0
    /\ vendor_last = NoVendorCall

\* VendorToolCallDetectionStrategy.reset
VendorReset ==
    /\ vendor_last.op # "reset"
    /\ partial_name' = NoneStr
    /\ partial_args' = <<>>
    /\ collected_tool_calls' = <<>>
    /\ found_complete_call' = FALSE
    /\ name_fragments' = <<>>
    /\ args_fragments' = <<>>
    /\ vendor_chunks' = 0
    /\ vendor_last' = [NoVendorCall EXCEPT !.op = "reset"]
    /\ UNCHANGED <<procVars, agentVars, concurrentVars, libraryVars>>

\* partial_name after a chunk that carries function_name
StoredName(name, function_name) ==
    IF Truthy(function_name) THEN function_name ELSE name

\* detect_chunk on a chunk with a choice
VendorDetectChunk(content, function_name, arguments, finish_reason) ==
    LET text_content == IF Truthy(content) THEN content ELSE NoneStr
        name == StoredName(partial_name, function_name)
        args == partial_args \o arguments
        parsed == parsed_args_of(args)
        tool_call == VendorToolCall(name, parsed)
    IN /\ vendor_chunks < MaxFrags
       /\ vendor_chunks' = vendor_chunks + 1
       /\ partial_name' = name
       /\ partial_args' = args
       /\ name_fragments' = name_fragments \o function_name
       /\ args_fragments' = args_fragments \o arguments
       /\ IF finish_reason = "tool_calls" /\ Truthy(name)
          THEN IF ValidArguments(parsed)
               THEN /\ collected_tool_calls' =
                          Append(collected_tool_calls, tool_call)
                    /\ found_complete_call' = TRUE
                    /\ vendor_last' =
                          [op |-> "detect", finish |-> finish_reason,
                           raised |-> FALSE,
                           detection |-> DetectionResult(COMPLETE_MATCH,
                                             text_content, <<tool_call>>)]
               ELSE /\ vendor_last' =
                          [op |-> "detect", finish |-> finish_reason,
                           raised |-> TRUE,
                           detection |-> DetectionResult(NO_MATCH, NoneStr,
                                                         <<>>)]
                    /\ UNCHANGED <<collected_tool_calls, found_complete_call>>
          ELSE /\ vendor_last' =
                     [op |-> "detect", finish |-> finish_reason,
                      raised |-> FALSE,
                      detection |->
                         DetectionResult(IF Truthy(name) \/ Truthy(args)
                                         THEN PARTIAL_MATCH ELSE NO_MATCH,
                                         text_content, <<>>)]
               /\ UNCHANGED <<collected_tool_calls, found_complete_call>>
       /\ UNCHANGED <<procVars, agentVars, concurrentVars, libraryVars>>

\* detect_chunk on a chunk without choices
VendorDetectNoChoices ==
    /\ vendor_chunks < MaxFrags
    /\ vendor_chunks' = vendor_chunks + 1
    /\ vendor_last' = [op |-> "detect", finish |-> "none", raised |-> FALSE,
                       detection |-> DetectionResult(NO_MATCH, NoneStr, <<>>)]
    /\ UNCHANGED <<partial_name, partial_args, collected_tool_calls,
                   found_complete_call, name_fragments, args_fragments>>
    /\ UNCHANGED <<procVars, agentVars, concurrentVars, libraryVars>>

\* VendorToolCallDetectionStrategy.finalize_detection
VendorFinalize ==
    /\ vendor_last.op \in {"detect", "reset"}
    /\ vendor_last' =
          [op |-> "finalize", finish |-> "none", raised |-> FALSE,
           detection |->
              IF found_complete_call
              THEN DetectionResult(COMPLETE_MATCH, NoneStr,
                                   collected_tool_calls)
              ELSE DetectionResult(NO_MATCH, NoneStr, <<>>)]
    /\ UNCHANGED <<partial_name, partial_args, collected_tool_calls,
                   found_complete_call, name_fragments, args_fragments,
                   vendor_chunks>>
    /\ UNCHANGED <<procVars, agentVars, concurrentVars, libraryVars>>

\* ---------------- two stream_step runs on the one agent of the API module
Turns == {1, 2}

NotStarted ==
    [pc |-> "idle", chunks |-> <<>>, events |-> <<>>, in_tool |-> FALSE,
     raised |-> FALSE, parsed |-> ParseError]

InitTurns == turns = [t \in Turns |-> NotStarted]

\* the characters the model of a run has sent
RECURSIVE Flatten(_)
Flatten(chunks) ==
    IF chunks = <<>> THEN <<>> ELSE Head(chunks) \o Flatten(Tail(chunks))

\* run t enters _handle_streaming: detection_strategy.reset() on the
\* strategy of the agent, then its model stream is opened
TurnEnter(t) ==
    /\ turns[t].pc = "idle"
    /\ StrategyReset
    /\ turns' = [turns EXCEPT ![t].pc = "stream"]
    /\ UNCHANGED <<context_state, streaming_entry_count,
                   max_streaming_iterations, current_tool_call, pc,
                   accumulated_content, text_events, stop_events, gen_opened,
                   all_tool, last_detection, prev_state, results,
                   tool_entries, finished_out_of_order, phase_messages, event_after_stop, errors_raised, apology_events,
                   upstream_failed, stream_budget, tool_kinds, vendorVars, libraryVars>>

\* the model of run t sends a chunk: detect_chunk on the strategy of the
\* agent, and the text event of the result
TurnChunk(t, chunk) ==
    /\ turns[t].pc = "stream"
    /\ Len(Flatten(turns[t].chunks)) + Len(chunk) <= stream_budget
    /\ ProcessChunkEffect(chunk)
    /\ LET pr == process_chunk_impl(variant, patterns, automaton, current_state,
                                    max_pattern_len,
                                    trailing_buffer_original \o chunk)
           d == detect_chunk_result(in_tool_call, tool_call_buffer, chunk,
                                    pr.result)
       IN IF pr.raised
          THEN /\ turns' = [turns EXCEPT
                               ![t].pc = "done",
                               ![t].chunks = Append(@, chunk),
                               ![t].raised = TRUE]
               /\ UNCHANGED <<in_tool_call, tool_call_buffer, match_seen>>
          ELSE /\ in_tool_call' = d.in_tool_call
               /\ tool_call_buffer' = d.tool_call_buffer
               /\ match_seen' = (match_seen \/ pr.result.matched)
               /\ turns' = [turns EXCEPT
                               ![t].chunks = Append(@, chunk),
                               ![t].in_tool = d.in_tool_call,
                               ![t].events =
                                  IF Truthy(d.detection.content)
                                  THEN @ \o d.detection.content ELSE @]
    /\ UNCHANGED <<context_state, streaming_entry_count,
                   max_streaming_iterations, current_tool_call, pc,
                   accumulated_content, text_events, stop_events, gen_opened,
                   all_tool, last_detection, prev_state, results,
                   tool_entries, finished_out_of_order, phase_messages, event_after_stop, errors_raised, apology_events,
                   upstream_failed, stream_budget, tool_kinds, vendorVars, libraryVars>>

\* the model stream of run t ends: finalize_detection on the strategy of
\* the agent, and the text event of its content
TurnEnd(t) ==
    /\ turns[t].pc = "stream"
    /\ FlushBufferEffect
    /\ \E parsed \in ParseOutcomes :
          LET f == finalize_detection_result(in_tool_call, tool_call_buffer,
                                             FlushResult(trailing_buffer_original),
                                             parsed)
          IN /\ (~in_tool_call => parsed = ParseError)
             /\ tool_call_buffer' = f.tool_call_buffer
             /\ turns' = [turns EXCEPT
                             ![t].pc = "done",
                             ![t].in_tool = in_tool_call,
                             ![t].parsed = parsed,
                             ![t].events =
                                IF Truthy(f.detection.content)
                                THEN @ \o f.detection.content ELSE @]
    /\ UNCHANGED <<context_state, streaming_entry_count,
                   max_streaming_iterations, current_tool_call, pc,
                   in_tool_call, accumulated_content, text_events,
                   stop_events, gen_opened, all_tool, match_seen,
                   last_detection, prev_state, results, tool_entries, finished_out_of_order, phase_messages, event_after_stop,
                   errors_raised, apology_events, upstream_failed,
                   stream_budget, tool_kinds, vendorVars, libraryVars>>

\* ------------------------------------------------------- specifications
\* a processor of either variant driven directly by its three methods
\* ------------------------------- the automaton used directly by a caller
SearchChunks == SeqsUpTo(MaxSearchChunk)

NoSearch == [op |-> "none", chunk |-> <<>>, found |-> <<>>, cs_before |-> 0]

InitAutomatonUse ==
    /\ searched = <<>>
    /\ search_found = <<>>
    /\ search_last = NoSearch
    /\ search_resets = 0

\* the end indexes of a call's matches, counted from the start of the text
Shifted(found, offset) ==
    [k \in 1..Len(found) |-> <<found[k][1] + offset, found[k][2]>>]

\* AhoCorasickAutomaton.search_chunk, called on the automaton itself
SearchChunk(chunk) ==
    LET r == search_chunk(automaton, current_state, chunk)
    IN /\ Len(searched) + Len(chunk) <= MaxSearched
       /\ current_state' = r.current_state
       /\ searched' = searched \o chunk
       /\ search_found' = search_found \o Shifted(r.found, Len(searched))
       /\ search_last' = [op |-> "search", chunk |-> chunk, found |-> r.found,
                          cs_before |-> current_state]
       /\ UNCHANGED search_resets
       /\ UNCHANGED <<variant, patterns, automaton, max_pattern_len,
                      trailing_buffer_original, fed, emitted, matchCount, last,
                      resets, fresh_state, fresh_trailing, fresh_last>>
       /\ UNCHANGED <<agentVars, concurrentVars, vendorVars, constructionVars,
                   normalizeVars, tokenVars, scanVars, extractVars,
                   utilityVars>>

\* AhoCorasickAutomaton.reset_state, called on the automaton itself
reset_state ==
    /\ search_resets < MaxResets
    /\ search_last.op # "reset"
    /\ current_state' = reset_state_result(current_state)
    /\ searched' = <<>>
    /\ search_found' = <<>>
    /\ search_last' = [NoSearch EXCEPT !.op = "reset",
                                       !.cs_before = current_state]
    /\ search_resets' = search_resets + 1
    /\ UNCHANGED <<variant, patterns, automaton, max_pattern_len,
                   trailing_buffer_original, fed, emitted, matchCount, last,
                   resets, fresh_state, fresh_trailing, fresh_last>>
    /\ UNCHANGED <<agentVars, concurrentVars, vendorVars, constructionVars,
                   normalizeVars, tokenVars, scanVars, extractVars,
                   utilityVars>>

\* ---------------------------------------------------------- construction
Classes == {"automaton", "standard", "normalized"}

\* raw_patterns as load_patterns can return them: no pattern at all, a
\* zero-length pattern, a pattern of whitespace only
ConstructionPatternSets ==
    PatternSets \cup
    { <<>>,
      <<Pat("p1", <<>>)>>,
      <<Pat("p1", <<>>), Pat("p2", <<"a", "b">>)>>,
      <<Pat("p1", <<" ">>), Pat("p2", <<"a", "b">>)>> }

\* AhoCorasickAutomaton.__init__ and AhoCorasickAutomatonNormalized.__init__
\* check nothing: _build_machine and _insert accept any dict
AutomatonInitRaises(pats) == FALSE

\* the processors' __init__: max() of an empty sequence is a ValueError
ProcessorInitRaises(v, pats) ==
    AutomatonInitRaises(AutomatonPatterns(v, pats)) \/ pats = <<>>

InitRaises(class, pats) ==
    IF class = "automaton" THEN AutomatonInitRaises(pats)
    ELSE ProcessorInitRaises(class, pats)

Constructed(class, raised) == [class |-> class, raised |-> raised]

\* the object a caller holds after construction, if it holds one
Built(class) == construction = Constructed(class, FALSE)

BuiltSearchChunk(chunk) == Built("automaton") /\ SearchChunk(chunk)

BuiltResetState == Built("automaton") /\ reset_state

\* ------------------------------------------ normalize_and_map on its own
InitNormalize ==
    /\ normalize_text = <<>>
    /\ normalize_returned = normalize_and_map(<<>>)

NormalizeCall(text) ==
    /\ normalize_text' = text
    /\ normalize_returned' = normalize_and_map(text)
    /\ UNCHANGED <<procVars, agentVars, concurrentVars, vendorVars,
                   automatonVars, constructionVars, tokenVars, scanVars,
                   extractVars, utilityVars>>

\* ------------------- ibm_token_manager.py and tools/core/utils/token_manager.py
Tasks == 1..MaxTasks

\* __init__: no token, expiry_time 0, the lock free
InitTokenManager(token, fresh) ==
    /\ access_token = token
    /\ token_fresh = fresh
    /\ lock_holder = 0
    /\ lock_waiters = <<>>
    /\ task_pc = [t \in Tasks |-> "idle"]
    /\ task_path = [t \in Tasks |-> "none"]
    /\ task_token = [t \in Tasks |-> 0]
    /\ requests_sent = 0
    /\ refresh_history = <<>>
    /\ expiries = 0

\* _is_token_expired
is_token_expired == access_token = 0 \/ ~token_fresh

\* _refresh_token going on to the request whatever the second check says
RefreshWithoutDoubleCheck(expired) == TRUE

\* the check of _refresh_token after it has acquired the lock
RefreshNeeded(expired) == expired

tokenFrame ==
    UNCHANGED <<procVars, agentVars, concurrentVars, vendorVars,
                automatonVars, constructionVars, normalizeVars, scanVars,
                extractVars, utilityVars>>

\* inside the lock: skip when the token is valid, else send the request and
\* suspend until the response
UnderLock(t) ==
    IF RefreshNeeded(is_token_expired)
    THEN /\ lock_holder' = t
         /\ requests_sent' = requests_sent + 1
         /\ task_pc' = [task_pc EXCEPT ![t] = "posting"]
         /\ UNCHANGED <<task_path, task_token>>
    ELSE /\ lock_holder' = 0
         /\ task_pc' = [task_pc EXCEPT ![t] = "returned"]
         /\ task_path' = [task_path EXCEPT ![t] = "skipped"]
         /\ task_token' = [task_token EXCEPT ![t] = access_token]
         /\ UNCHANGED requests_sent

\* get_token up to its first suspension: return the valid token, or enter
\* _refresh_token and take the lock, or wait for it
get_token(t) ==
    /\ task_pc[t] = "idle"
    /\ IF ~is_token_expired
       THEN /\ task_pc' = [task_pc EXCEPT ![t] = "returned"]
            /\ task_path' = [task_path EXCEPT ![t] = "valid"]
            /\ task_token' = [task_token EXCEPT ![t] = access_token]
            /\ UNCHANGED <<lock_holder, lock_waiters, requests_sent>>
       ELSE IF lock_holder = 0 /\ lock_waiters = <<>>
       THEN UnderLock(t) /\ UNCHANGED lock_waiters
       ELSE /\ lock_waiters' = Append(lock_waiters, t)
            /\ task_pc' = [task_pc EXCEPT ![t] = "waiting"]
            /\ UNCHANGED <<lock_holder, task_path, task_token, requests_sent>>
    /\ UNCHANGED <<access_token, token_fresh, refresh_history, expiries>>
    /\ tokenFrame

\* the first waiter resumes with the lock
LockAcquired(t) ==
    /\ lock_holder = 0
    /\ lock_waiters # <<>>
    /\ Head(lock_waiters) = t
    /\ lock_waiters' = Tail(lock_waiters)
    /\ UnderLock(t)
    /\ UNCHANGED <<access_token, token_fresh, refresh_history, expiries>>
    /\ tokenFrame

\* the response arrives with access_token and expires_in; long_lived says
\* whether expires_in exceeds refresh_buffer
RefreshSucceeds(t, long_lived) ==
    /\ task_pc[t] = "posting"
    /\ access_token' = requests_sent
    /\ token_fresh' = long_lived
    /\ lock_holder' = 0
    /\ task_pc' = [task_pc EXCEPT ![t] = "returned"]
    /\ task_path' = [task_path EXCEPT ![t] = "refreshed"]
    /\ task_token' = [task_token EXCEPT ![t] = requests_sent]
    /\ refresh_history' =
          Append(refresh_history, IF long_lived THEN "ok" ELSE "short")
    /\ UNCHANGED <<lock_waiters, requests_sent, expiries>>
    /\ tokenFrame

\* the request or the response fails: both except branches
RefreshFails(t) ==
    /\ task_pc[t] = "posting"
    /\ access_token' = 0
    /\ lock_holder' = 0
    /\ task_pc' = [task_pc EXCEPT ![t] = "raised"]
    /\ task_path' = [task_path EXCEPT ![t] = "raised"]
    /\ refresh_history' = Append(refresh_history, "failed")
    /\ UNCHANGED <<token_fresh, lock_waiters, task_token, requests_sent,
                   expiries>>
    /\ tokenFrame

\* time passes until the token is within refresh_buffer of its expiry
TokenAges ==
    /\ expiries < MaxExpiries
    /\ access_token # 0
    /\ token_fresh
    /\ token_fresh' = FALSE
    /\ expiries' = expiries + 1
    /\ UNCHANGED <<access_token, lock_holder, lock_waiters, task_pc,
                   task_path, task_token, requests_sent, refresh_history>>
    /\ tokenFrame

\* ------------------------------ tools/core/parsers/json_tool_call_parser.py
\* the characters find_json_content tells apart, and one that it does not
JsonAlphabet == {"{", "}", "[", "]", "\"", "\\", "x"}

Openers == {"{", "["}
Closers == {"}", "]"}

RECURSIVE JsonTextsUpTo(_)
JsonTextsUpTo(n) ==
    IF n = 0 THEN {<<>>}
    ELSE LET shorter == JsonTextsUpTo(n - 1)
         IN shorter \cup
            {Append(t, ch) : t \in {u \in shorter : Len(u) = n - 1},
                             ch \in JsonAlphabet}

\* the loop of find_json_content from character k (index i = k - 1); start
\* is -1 for None
RECURSIVE ScanFrom(_, _, _, _, _, _, _)
ScanFrom(text, k, spans, start, depth, in_string, escape_next) ==
    IF k > Len(text) THEN spans
    ELSE LET char == text[k] IN
         IF char = "\\" /\ ~escape_next
         THEN ScanFrom(text, k + 1, spans, start, depth, in_string, TRUE)
         ELSE LET in_str == IF char = "\"" /\ ~escape_next
                            THEN ~in_string ELSE in_string
              IN IF in_str
                 THEN ScanFrom(text, k + 1, spans, start, depth, in_str, FALSE)
                 ELSE IF char \in Openers /\ depth = 0
                 THEN ScanFrom(text, k + 1, spans, k - 1, depth + 1, in_str,
                               FALSE)
                 ELSE IF char \in Openers
                 THEN ScanFrom(text, k + 1, spans, start, depth + 1, in_str,
                               FALSE)
                 ELSE IF char \in Closers
                 THEN IF depth - 1 = 0 /\ start # -1
                      THEN ScanFrom(text, k + 1,
                                    Append(spans, SubSeq(text, start + 1, k)),
                                    -1, depth - 1, in_str, FALSE)
                      ELSE ScanFrom(text, k + 1, spans, start, depth - 1,
                                    in_str, FALSE)
                 ELSE ScanFrom(text, k + 1, spans, start, depth, in_str, FALSE)

find_json_content(text) == ScanFrom(text, 1, <<>>, -1, 0, FALSE, FALSE)

InitScan ==
    /\ scan_text = <<>>
    /\ scan_returned = find_json_content(<<>>)

FindJsonContentCall(text) ==
    /\ scan_text' = text
    /\ scan_returned' = find_json_content(text)
    /\ UNCHANGED <<procVars, agentVars, concurrentVars, vendorVars,
                   automatonVars, constructionVars, normalizeVars, tokenVars,
                   extractVars, utilityVars>>

\* ------------------------------------------- JSONToolCallParser.extract
\* a text is a sequence of lexical tokens: the delimiters, string literals
\* (written with their quotes), bare identifiers, numbers, and a word of
\* prose; whitespace between tokens is left out
Strings == {"name", "arguments", "a", "b", "x", "y"}

StringLiteral(text) ==
    CASE text = "name" -> "\"name\""
      [] text = "arguments" -> "\"arguments\""
      [] text = "a" -> "\"a\""
      [] text = "b" -> "\"b\""
      [] text = "x" -> "\"x\""
      [] text = "y" -> "\"y\""

StringLiterals == {StringLiteral(text) : text \in Strings}
Identifiers == {"x", "y"}
Numbers == {"1", "2"}

Unquoted(literal) == CHOOSE text \in Strings : StringLiteral(text) = literal

\* the values json5.loads builds
JsonDict(members) == [kind |-> "dict", text |-> "", items |-> members]
JsonList(elements) == [kind |-> "list", text |-> "", items |-> elements]
JsonStr(text) == [kind |-> "str", text |-> text, items |-> <<>>]
JsonNumber(text) == [kind |-> "number", text |-> text, items |-> <<>>]
Member(key, value) == [key |-> key, value |-> value]

ParseFailed == [ok |-> FALSE, value |-> JsonStr(""), next |-> 0]
Parsed(value, next) == [ok |-> TRUE, value |-> value, next |-> next]

\* json5: a value from token k; members and elements allow a trailing
\* comma, member names may be string literals or bare identifiers
RECURSIVE ParseValue(_, _), ParseMembers(_, _, _), ParseElements(_, _, _)
ParseValue(toks, k) ==
    IF k > Len(toks) THEN ParseFailed
    ELSE IF toks[k] = "{" THEN ParseMembers(toks, k + 1, <<>>)
    ELSE IF toks[k] = "[" THEN ParseElements(toks, k + 1, <<>>)
    ELSE IF toks[k] \in StringLiterals
    THEN Parsed(JsonStr(Unquoted(toks[k])), k + 1)
    ELSE IF toks[k] \in Numbers THEN Parsed(JsonNumber(toks[k]), k + 1)
    ELSE ParseFailed

ParseMembers(toks, k, members) ==
    IF k > Len(toks) THEN ParseFailed
    ELSE IF toks[k] = "}" THEN Parsed(JsonDict(members), k + 1)
    ELSE IF toks[k] \notin StringLiterals \cup Identifiers THEN ParseFailed
    ELSE IF k + 1 > Len(toks) \/ toks[k + 1] # ":" THEN ParseFailed
    ELSE LET key == IF toks[k] \in Identifiers THEN toks[k]
                    ELSE Unquoted(toks[k])
             v == ParseValue(toks, k + 2)
         IN IF ~v.ok \/ v.next > Len(toks) THEN ParseFailed
            ELSE IF toks[v.next] = ","
            THEN ParseMembers(toks, v.next + 1,
                              Append(members, Member(key, v.value)))
            ELSE IF toks[v.next] = "}"
            THEN Parsed(JsonDict(Append(members, Member(key, v.value))),
                        v.next + 1)
            ELSE ParseFailed

ParseElements(toks, k, elements) ==
    IF k > Len(toks) THEN ParseFailed
    ELSE IF toks[k] = "]" THEN Parsed(JsonList(elements), k + 1)
    ELSE LET v == ParseValue(toks, k)
         IN IF ~v.ok \/ v.next > Len(toks) THEN ParseFailed
            ELSE IF toks[v.next] = ","
            THEN ParseElements(toks, v.next + 1, Append(elements, v.value))
            ELSE IF toks[v.next] = "]"
            THEN Parsed(JsonList(Append(elements, v.value)), v.next + 1)
            ELSE ParseFailed

\* json5.loads: ok is FALSE where the library raises
json5_loads(toks) ==
    LET r == ParseValue(toks, 1)
    IN IF r.ok /\ r.next = Len(toks) + 1 THEN r ELSE ParseFailed

\* SEMICOLON_PATTERN.sub: a semicolon between a closer and an opener
RECURSIVE FixSemicolons(_, _)
FixSemicolons(toks, k) ==
    IF k > Len(toks) THEN <<>>
    ELSE IF /\ toks[k] = ";"
            /\ k > 1 /\ toks[k - 1] \in Closers
            /\ k < Len(toks) /\ toks[k + 1] \in Openers
    THEN <<",">> \o FixSemicolons(toks, k + 1)
    ELSE <<toks[k]>> \o FixSemicolons(toks, k + 1)

\* TRAILING_COMMA_PATTERN.sub: a comma before a closer
RECURSIVE DropTrailingCommas(_, _)
DropTrailingCommas(toks, k) ==
    IF k > Len(toks) THEN <<>>
    ELSE IF toks[k] = "," /\ k < Len(toks) /\ toks[k + 1] \in Closers
    THEN DropTrailingCommas(toks, k + 1)
    ELSE <<toks[k]>> \o DropTrailingCommas(toks, k + 1)

\* MISSING_COMMA_PATTERN.sub: a closer next to an opener
RECURSIVE AddMissingCommas(_, _)
AddMissingCommas(toks, k) ==
    IF k > Len(toks) THEN <<>>
    ELSE IF /\ toks[k] \in Closers
            /\ k < Len(toks) /\ toks[k + 1] \in Openers
    THEN <<toks[k], ",">> \o AddMissingCommas(toks, k + 1)
    ELSE <<toks[k]>> \o AddMissingCommas(toks, k + 1)

\* UNQUOTED_PROPERTY_PATTERN.sub: an identifier between { or , and a colon
RECURSIVE QuoteProperties(_, _)
QuoteProperties(toks, k) ==
    IF k > Len(toks) THEN <<>>
    ELSE IF /\ toks[k] \in Identifiers
            /\ k > 1 /\ toks[k - 1] \in {"{", ","}
            /\ k < Len(toks) /\ toks[k + 1] = ":"
    THEN <<StringLiteral(toks[k])>> \o QuoteProperties(toks, k + 1)
    ELSE <<toks[k]>> \o QuoteProperties(toks, k + 1)

preprocess_json(json_str) ==
    QuoteProperties(
        AddMissingCommas(
            DropTrailingCommas(FixSemicolons(json_str, 1), 1), 1), 1)

\* split_json_list_items: the loop over content from token k; items that
\* the loop appends, then the last one
RECURSIVE SplitFrom(_, _, _, _, _)
SplitFrom(content, k, items, depth, start) ==
    IF k > Len(content)
    THEN IF start <= Len(content)
         THEN Append(items, SubSeq(content, start, Len(content)))
         ELSE items
    ELSE LET d == IF content[k] \in Openers THEN depth + 1
                  ELSE IF content[k] \in Closers THEN depth - 1
                  ELSE depth
         IN IF d = 0 /\ content[k] \in {",", ";"}
            THEN SplitFrom(content, k + 1,
                           Append(items, SubSeq(content, start, k - 1)),
                           d, k + 1)
            ELSE SplitFrom(content, k + 1, items, d, start)

split_json_list_items(json_list) ==
    SplitFrom(SubSeq(json_list, 2, Len(json_list) - 1), 1, <<>>, 0, 1)

\* parse_nested_json parses again the strings that start with { or [; no
\* string literal of these texts does, so every value comes back as it is
parse_nested_json(value) == value

\* what one successful json5.loads adds to valid_calls
Collected(valid_calls, parsed) ==
    IF parsed.kind = "dict" THEN Append(valid_calls, parsed)
    ELSE IF parsed.kind = "list" THEN valid_calls \o parsed.items
    ELSE valid_calls

\* the third attempt: every item of the list that parses is appended
RECURSIVE CollectItems(_, _, _)
CollectItems(valid_calls, items, k) ==
    IF k > Len(items) THEN valid_calls
    ELSE LET r == json5_loads(items[k])
         IN CollectItems(IF r.ok
                         THEN Append(valid_calls, parse_nested_json(r.value))
                         ELSE valid_calls,
                         items, k + 1)

\* extract giving up after json5.loads has failed on the text as it is
ExtractOneWithoutRepair(valid_calls, json_str) ==
    LET first == json5_loads(json_str)
    IN IF first.ok THEN Collected(valid_calls, parse_nested_json(first.value))
       ELSE valid_calls

\* the body of the loop of extract for one json_str
ExtractOne(valid_calls, json_str) ==
    LET first == json5_loads(json_str)
        second == json5_loads(preprocess_json(json_str))
    IN IF first.ok THEN Collected(valid_calls, parse_nested_json(first.value))
       ELSE IF second.ok
       THEN Collected(valid_calls, parse_nested_json(second.value))
       ELSE IF json_str[1] = "[" /\ json_str[Len(json_str)] = "]"
       THEN CollectItems(valid_calls, split_json_list_items(json_str), 1)
       ELSE valid_calls

RECURSIVE ExtractFrom(_, _, _)
ExtractFrom(valid_calls, json_strings, k) ==
    IF k > Len(json_strings) THEN valid_calls
    ELSE ExtractFrom(ExtractOne(valid_calls, json_strings[k]),
                     json_strings, k + 1)

NoValidToolCalls == [error |-> TRUE, tool_calls |-> <<>>]

extract(text) ==
    LET valid_calls == ExtractFrom(<<>>, find_json_content(text), 1)
    IN IF valid_calls # <<>>
       THEN [error |-> FALSE, tool_calls |-> valid_calls]
       ELSE NoValidToolCalls

\* the texts: a list of two tool calls, after a word of prose or not, the
\* items separated by a comma, a semicolon or nothing, the names of the
\* arguments quoted or not, a comma after the last item or not
ToolCallItem(name, key, quoted, number) ==
    <<"{", StringLiteral("name"), ":", StringLiteral(name), ",",
      StringLiteral("arguments"), ":",
      "{", IF quoted THEN StringLiteral(key) ELSE key, ":", number, "}", "}">>

ToolCallList(prose, n1, q1, separator, n2, q2, trailing) ==
    prose \o <<"[">> \o ToolCallItem(n1, "x", q1, "1") \o separator
          \o ToolCallItem(n2, "y", q2, "2") \o trailing \o <<"]">>

ExtractTexts ==
    {ToolCallList(prose, n1, q1, separator, n2, q2, trailing) :
        prose \in {<<>>, <<"x">>}, n1 \in {"a", "b"}, q1 \in BOOLEAN,
        separator \in {<<",">>, <<";">>, <<>>}, n2 \in {"a", "b"},
        q2 \in BOOLEAN, trailing \in {<<>>, <<",">>}}

InitExtract ==
    /\ extract_text = <<>>
    /\ extract_returned = extract(<<>>)

ExtractCall(text) ==
    /\ extract_text' = text
    /\ extract_returned' = extract(text)
    /\ UNCHANGED <<procVars, agentVars, concurrentVars, vendorVars,
                   automatonVars, constructionVars, normalizeVars, tokenVars,
                   scanVars, utilityVars>>

\* ------------------------------------------------ format_json_to_document
\* the data: None, a str (its characters), a list or a dict of these, and a
\* dict that holds itself
DocNull == [kind |-> "null", text |-> <<>>, items |-> <<>>]
DocStr(chars) == [kind |-> "str", text |-> chars, items |-> <<>>]
DocList(elements) == [kind |-> "list", text |-> <<>>, items |-> elements]
DocDict(members) == [kind |-> "dict", text |-> <<>>, items |-> members]
DocCircular == [kind |-> "circular", text |-> <<>>, items |-> <<>>]
DocItem(key, value) == [key |-> key, value |-> value]

DocLong == DocStr(<<"v", "w", "x">>)

DocData ==
    {DocNull, DocDict(<<>>), DocList(<<>>), DocStr(<<"v">>), DocCircular,
     DocList(<<DocItem("", DocNull), DocItem("", DocLong)>>),
     DocList(<<DocItem("", DocDict(<<DocItem("k", DocStr(<<"v">>))>>))>>),
     DocDict(<<DocItem("k", DocLong), DocItem("n", DocNull)>>),
     DocDict(<<DocItem("k", DocList(<<>>)),
               DocItem("n", DocList(<<DocItem("", DocStr(<<"v">>))>>))>>)}

FormatArgs(data, indent_size, preview_length, max_length, show_list_indices) ==
    [data |-> data, indent_size |-> indent_size,
     preview_length |-> preview_length, max_length |-> max_length,
     show_list_indices |-> show_list_indices]

_truncate_value(value, preview_length, max_length) ==
    IF Len(value) > max_length
    THEN SubSeq(value, 1, Min(preview_length, Len(value))) \o <<"...">>
    ELSE value

\* the tests with max_length allowed to equal preview_length
OptionsBelowOne(indent_size, preview_length, max_length) ==
    \/ indent_size < 1
    \/ preview_length < 1
    \/ max_length < preview_length

\* the three tests at the head of format_json_to_document
InvalidOptions(indent_size, preview_length, max_length) ==
    \/ indent_size < 1
    \/ preview_length < 1
    \/ max_length <= preview_length

\* str(i) of a list index
IndexStr(i) == CASE i = 0 -> "0" [] i = 1 -> "1" [] OTHER -> "2"

DocLine(indent, parts) == [indent |-> indent, parts |-> parts]

\* _format_recursive: the lines it yields for obj at current_level
RECURSIVE FormatRecursive(_, _, _), FormatItems(_, _, _, _)
FormatRecursive(obj, current_level, args) ==
    IF obj.kind = "null" THEN <<DocLine(current_level, <<"null">>)>>
    ELSE IF obj.kind \in {"list", "dict"} /\ obj.items = <<>>
    THEN <<DocLine(current_level, <<"[empty]">>)>>
    ELSE IF obj.kind \in {"list", "dict"}
    THEN FormatItems(obj, 1, current_level, args)
    ELSE <<DocLine(current_level, args.data.text)>>

\* the loops over a list and over a dict, from item k
FormatItems(obj, k, current_level, args) ==
    IF k > Len(obj.items) THEN <<>>
    ELSE LET value == obj.items[k].value
             prefix == IF obj.kind = "dict" THEN <<obj.items[k].key, ": ">>
                       ELSE IF args.show_list_indices
                       THEN <<IndexStr(k - 1), ": ">>
                       ELSE <<>>
             heading == IF obj.kind = "dict" THEN <<obj.items[k].key, ":">>
                        ELSE <<IndexStr(k - 1), ":">>
             lines ==
                 IF value.kind = "null"
                 THEN <<DocLine(current_level, prefix \o <<"null">>)>>
                 ELSE IF value.kind \in {"list", "dict"}
                 THEN IF obj.kind = "dict"
                      THEN IF value.items = <<>>
                           THEN <<DocLine(current_level,
                                          prefix \o <<"[empty]">>)>>
                           ELSE <<DocLine(current_level, heading)>>
                                \o FormatRecursive(
                                       value, current_level + args.indent_size,
                                       args)
                      ELSE (IF args.show_list_indices
                            THEN <<DocLine(current_level, heading)>>
                            ELSE <<>>)
                           \o (IF value.items = <<>>
                               THEN <<DocLine(current_level + args.indent_size,
                                              <<"[empty]">>)>>
                               ELSE FormatRecursive(
                                        value,
                                        current_level + args.indent_size, args))
                 ELSE <<DocLine(current_level,
                                prefix \o _truncate_value(
                                              value.text, args.preview_length,
                                              args.max_length))>>
         IN lines \o FormatItems(obj, k + 1, current_level, args)

\* format_json_to_document at level 0: what it raises or returns
format_json_to_document(args) ==
    IF InvalidOptions(args.indent_size, args.preview_length, args.max_length)
    THEN [outcome |-> "ValueError", output |-> <<>>]
    ELSE IF args.data.kind = "circular"
    THEN [outcome |-> "RecursionError", output |-> <<>>]
    ELSE [outcome |-> "returned",
          output |-> FormatRecursive(args.data, 0, args)]

InitFormat ==
    /\ format_args = FormatArgs(DocNull, 1, 100, 500, TRUE)
    /\ format_outcome = format_json_to_document(format_args).outcome
    /\ format_output = format_json_to_document(format_args).output

FormatCall(args) ==
    /\ format_args' = args
    /\ format_outcome' = format_json_to_document(args).outcome
    /\ format_output' = format_json_to_document(args).output
    /\ UNCHANGED <<procVars, agentVars, concurrentVars, vendorVars,
                   parserVars, pairVars, restVars>>

\* --------------- a standard and a normalized processor given the same calls
\* pattern sets and chunks without whitespace
NoWhitespace(text) == \A k \in 1..Len(text) : ~isspace(text[k])

PairPatternSets ==
    {pats \in PatternSets : \A k \in 1..Len(pats) : NoWhitespace(pats[k].str)}
        \cup {<<Pat("p1", <<"a", "b", "a">>)>>}

PairChunks == {chunk \in Chunks : NoWhitespace(chunk)}

\* a processor constructed from pats: its cursor and its trailing buffer
Processor(cs, trailing) == [current_state |-> cs, trailing |-> trailing]

\* BaseBufferedProcessor.process_chunk on processor p of variant v
PairProcessChunkOf(v, pats, p, chunk) ==
    LET r == process_chunk_impl(v, pats,
                                build_machine(AutomatonPatterns(v, pats)),
                                p.current_state, max_pattern_len_of(v, pats),
                                p.trailing \o chunk)
    IN [processor |-> Processor(r.current_state,
                                IF r.raised THEN p.trailing
                                ELSE r.new_trailing),
        returned |-> [raised |-> r.raised, result |-> r.result]]

InitPair(pats) ==
    /\ pair_patterns = pats
    /\ pair_standard = Processor(0, <<>>)
    /\ pair_normalized = Processor(0, <<>>)
    /\ pair_last = [op |-> "none", standard |-> NoReturn,
                    normalized |-> NoReturn]

pairFrame ==
    UNCHANGED <<procVars, agentVars, concurrentVars, vendorVars, parserVars,
                formatVars, restVars, pair_patterns>>

PairProcessChunk(chunk) ==
    LET s == PairProcessChunkOf("standard", pair_patterns, pair_standard,
                                chunk)
        n == PairProcessChunkOf("normalized", pair_patterns, pair_normalized,
                                chunk)
    IN /\ pair_standard' = s.processor
       /\ pair_normalized' = n.processor
       /\ pair_last' = [op |-> "chunk", standard |-> s.returned,
                        normalized |-> n.returned]
       /\ pairFrame

PairFlushBuffer ==
    /\ pair_standard' = [pair_standard EXCEPT !.trailing = <<>>]
    /\ pair_normalized' = [pair_normalized EXCEPT !.trailing = <<>>]
    /\ pair_last' =
          [op |-> "flush",
           standard |-> [raised |-> FALSE,
                         result |-> FlushResult(pair_standard.trailing)],
           normalized |-> [raised |-> FALSE,
                           result |-> FlushResult(pair_normalized.trailing)]]
    /\ pairFrame

PairResetStates ==
    /\ pair_standard' = [pair_standard EXCEPT !.trailing = <<>>]
    /\ pair_normalized' = [pair_normalized EXCEPT !.trailing = <<>>]
    /\ pair_last' = [op |-> "reset", standard |-> NoReturn,
                     normalized |-> NoReturn]
    /\ pairFrame

\* ------------------------------------------------ BaseRESTTool.make_request
\* what an attempt meets: a 200 with a body in the asked format, a 200 whose
\* body is not JSON, another status, aiohttp.ClientError, or another
\* exception (a timeout, an unsupported response format)
Responses ==
    {"200", "200_invalid_json", "400", "401", "403", "404", "418", "500",
     "503", "ClientError", "Exception"}

ServerErrors == {"500", "503"}

\* attempt < self.max_retries - 1 that lets the loop go round once more
RetriesLeftUpToLast(attempt, max_retries) == attempt < max_retries

RetriesLeft(attempt, max_retries) == attempt < max_retries - 1

\* what the loop body does with the response of this attempt: "continue"
\* after the backoff, or the value it returns
AttemptOutcome(response, attempt, max_retries) ==
    IF response = "200" THEN "result"
    ELSE IF response \in ServerErrors \cup {"ClientError"}
    THEN IF RetriesLeft(attempt, max_retries) THEN "continue" ELSE "error"
    ELSE "error"

InitRest(max_retries) ==
    /\ rest_max_retries = max_retries
    /\ rest_pc = "idle"
    /\ rest_attempt = 0
    /\ rest_responses = <<>>
    /\ rest_returned = "nothing"

restFrame ==
    UNCHANGED <<procVars, agentVars, concurrentVars, vendorVars, parserVars,
                formatVars, pairVars, rest_max_retries>>

\* make_request up to the loop: for attempt in range(self.max_retries)
MakeRequest ==
    /\ rest_pc = "idle"
    /\ rest_attempt' = 0
    /\ rest_responses' = <<>>
    /\ IF 0 < rest_max_retries
       THEN rest_pc' = "request" /\ rest_returned' = "nothing"
       ELSE rest_pc' = "done" /\ rest_returned' = "None"
    /\ restFrame

\* session.request of this attempt and what the loop body makes of it
Attempt(response) ==
    /\ rest_pc = "request"
    /\ rest_responses' = Append(rest_responses, response)
    /\ LET outcome == AttemptOutcome(response, rest_attempt, rest_max_retries)
       IN IF outcome = "continue"
          THEN /\ rest_pc' = "sleep"
               /\ UNCHANGED <<rest_attempt, rest_returned>>
          ELSE /\ rest_pc' = "done"
               /\ rest_returned' = outcome
               /\ UNCHANGED rest_attempt
    /\ restFrame

\* the backoff sleep ends and the loop goes to its next attempt, or ends
BackoffEnds ==
    /\ rest_pc = "sleep"
    /\ rest_attempt' = rest_attempt + 1
    /\ IF rest_attempt + 1 < rest_max_retries
       THEN rest_pc' = "request" /\ UNCHANGED rest_returned
       ELSE rest_pc' = "done" /\ rest_returned' = "None"
    /\ UNCHANGED rest_responses
    /\ restFrame

InitUtilities ==
    /\ InitFormat
    /\ InitPair(<<Pat("p1", <<"a", "b">>)>>)
    /\ InitRest(3)

InitLibrary ==
    /\ InitAutomatonUse
    /\ construction = Constructed("standard", FALSE)
    /\ InitNormalize
    /\ InitTokenManager(0, FALSE)
    /\ InitScan
    /\ InitExtract
    /\ InitUtilities

\* ------------------------------------------------------- specifications
process_chunk(chunk) ==
    /\ Len(fed) + Len(chunk) <= MaxFed
    /\ ProcessChunkEffect(chunk)
    /\ UNCHANGED <<agentVars, concurrentVars, vendorVars, libraryVars>>

flush_buffer ==
    /\ last.op # "flush"
    /\ FlushBufferEffect
    /\ UNCHANGED <<agentVars, concurrentVars, vendorVars, libraryVars>>

reset_states ==
    /\ resets < MaxResets
    /\ ResetStatesEffect
    /\ UNCHANGED <<agentVars, concurrentVars, vendorVars, libraryVars>>

Init ==
    /\ \E v \in Variants : \E pats \in PatternSets : InitProcessor(v, pats)
    /\ InitAgentContext(1)
    /\ InitEnvironment(MaxFed, {"returns"})
    /\ InitTurns
    /\ InitVendor
    /\ InitLibrary

Next ==
    \/ \E chunk \in Chunks : process_chunk(chunk)
    \/ flush_buffer
    \/ reset_states

Spec == Init /\ [][Next]_vars

\* one turn of the agent in manual detection mode
InitAgent ==
    /\ \E pats \in PatternSets : InitProcessor("normalized", pats)
    /\ \E n \in 0..MaxIter : InitAgentContext(n)
    /\ InitEnvironment(MaxFed, {"returns"})
    /\ InitTurns
    /\ InitVendor
    /\ InitLibrary

NextAgent ==
    \/ StreamingEnter
    \/ StreamEmptyChunk
    \/ \E chunk \in Chunks : StreamChunk(chunk)
    \/ StreamRaise
    \/ StreamEnd
    \/ HandleToolDetection
    \/ ToolExecutionBegin
    \/ \E i \in 1..MaxToolCalls : run_tool(i)
    \/ HandleToolExecution
    \/ HandleIntermediate
    \/ HandleCompleting

SpecAgent == InitAgent /\ [][NextAgent]_vars

\* stream_step runs while its consumer keeps iterating it, and a model stream
\* that does not raise ends
FairSpecAgent ==
    /\ SpecAgent
    /\ WF_vars(StreamingEnter)
    /\ WF_vars(StreamEnd)
    /\ WF_vars(HandleToolDetection)
    /\ WF_vars(ToolExecutionBegin)
    /\ WF_vars(\E i \in 1..MaxToolCalls : run_tool(i))
    /\ WF_vars(HandleToolExecution)
    /\ WF_vars(HandleIntermediate)
    /\ WF_vars(HandleCompleting)

\* one turn in manual detection mode with one marker, against tools of
\* every behaviour and with handlers that raise
InitTurn ==
    /\ InitProcessor("normalized", <<Pat("p1", <<"a", "b">>)>>)
    /\ \E n \in 0..MaxTurnIter : InitAgentContext(n)
    /\ InitEnvironment(MaxTurnFed, ToolOutcomes)
    /\ InitTurns
    /\ InitVendor
    /\ InitLibrary

NextTurn ==
    \/ NextAgent
    \/ ToolDetectionRaises
    \/ IntermediateRaises
    \/ CompletingRaises

SpecTurn == InitTurn /\ [][NextTurn]_vars

\* stream_step runs every handler it enters to its end, whether the handler
\* returns or raises
FairSpecTurn ==
    /\ SpecTurn
    /\ WF_vars(StreamingEnter)
    /\ WF_vars(StreamEnd)
    /\ WF_vars(HandleToolDetection)
    /\ WF_vars(ToolExecutionBegin)
    /\ WF_vars(\E i \in 1..MaxToolCalls : run_tool(i))
    /\ WF_vars(HandleToolExecution)
    /\ WF_vars(HandleIntermediate)
    /\ WF_vars(HandleCompleting)

\* two requests served at once by the agent of the API module, in manual
\* detection mode with one marker
InitConcurrent ==
    /\ InitProcessor("normalized", <<Pat("p1", <<"a", "b">>)>>)
    /\ InitAgentContext(1)
    /\ InitEnvironment(MaxTurnFed, {"returns"})
    /\ InitTurns
    /\ InitVendor
    /\ InitLibrary

NextConcurrent ==
    \E t \in Turns :
       \/ TurnEnter(t)
       \/ \E chunk \in Chunks : TurnChunk(t, chunk)
       \/ TurnEnd(t)

SpecConcurrent == InitConcurrent /\ [][NextConcurrent]_vars

\* a vendor detection strategy driven directly by its three methods
InitVendorStrategy ==
    /\ InitProcessor("normalized", <<Pat("p1", <<"a", "b">>)>>)
    /\ InitAgentContext(1)
    /\ InitEnvironment(MaxTurnFed, {"returns"})
    /\ InitTurns
    /\ InitVendor
    /\ InitLibrary

NextVendor ==
    \/ VendorReset
    \/ \E content \in TextContents, function_name \in NameFragments,
          arguments \in ArgsFragments, finish_reason \in FinishReasons :
          VendorDetectChunk(content, function_name, arguments, finish_reason)
    \/ VendorDetectNoChoices
    \/ VendorFinalize

SpecVendor == InitVendorStrategy /\ [][NextVendor]_vars

\* an automaton built over the raw patterns and driven by its caller
InitAutomaton ==
    /\ \E pats \in PatternSets : InitProcessor("standard", pats)
    /\ InitAgentContext(1)
    /\ InitEnvironment(MaxTurnFed, {"returns"})
    /\ InitTurns
    /\ InitVendor
    /\ InitLibrary

NextAutomaton ==
    \/ \E chunk \in SearchChunks : SearchChunk(chunk)
    \/ reset_state

SpecAutomaton == InitAutomaton /\ [][NextAutomaton]_vars

\* any of the three classes constructed over any dict of patterns
InitConstruction ==
    /\ \E class \in Classes : \E pats \in ConstructionPatternSets :
          /\ InitProcessor(IF class = "automaton" THEN "standard" ELSE class,
                           pats)
          /\ construction = Constructed(class, InitRaises(class, pats))
    /\ InitAgentContext(1)
    /\ InitEnvironment(MaxTurnFed, {"returns"})
    /\ InitTurns
    /\ InitVendor
    /\ InitAutomatonUse
    /\ InitNormalize
    /\ InitTokenManager(0, FALSE)
    /\ InitScan
    /\ InitExtract
    /\ InitUtilities

BuiltProcessChunk(chunk) ==
    (Built("standard") \/ Built("normalized")) /\ process_chunk(chunk)

BuiltFlushBuffer ==
    (Built("standard") \/ Built("normalized")) /\ flush_buffer

BuiltResetStates ==
    (Built("standard") \/ Built("normalized")) /\ reset_states

NextConstruction ==
    \/ \E chunk \in Chunks : BuiltSearchChunk(chunk)
    \/ BuiltResetState
    \/ \E chunk \in Chunks : BuiltProcessChunk(chunk)
    \/ BuiltFlushBuffer
    \/ BuiltResetStates

SpecConstruction == InitConstruction /\ [][NextConstruction]_vars

\* the normalized processor fed texts of any length up to MaxFed
Texts == SeqsUpTo(MaxFed) \ {<<>>}

InitRoundTrip ==
    /\ \E pats \in PatternSets : InitProcessor("normalized", pats)
    /\ InitAgentContext(1)
    /\ InitEnvironment(MaxTurnFed, {"returns"})
    /\ InitTurns
    /\ InitVendor
    /\ InitLibrary

NextRoundTrip ==
    \/ \E text \in Texts : process_chunk(text)
    \/ flush_buffer
    \/ reset_states

SpecRoundTrip == InitRoundTrip /\ [][NextRoundTrip]_vars

\* tasks calling get_token on one token manager
InitTokens ==
    /\ InitProcessor("normalized", <<Pat("p1", <<"a", "b">>)>>)
    /\ InitAgentContext(1)
    /\ InitEnvironment(MaxTurnFed, {"returns"})
    /\ InitTurns
    /\ InitVendor
    /\ InitAutomatonUse
    /\ construction = Constructed("standard", FALSE)
    /\ InitNormalize
    /\ InitTokenManager(0, FALSE)
    /\ InitScan
    /\ InitExtract
    /\ InitUtilities

NextTokens ==
    \/ \E t \in Tasks : get_token(t)
    \/ \E t \in Tasks : LockAcquired(t)
    \/ \E t \in Tasks : \E long_lived \in BOOLEAN :
          RefreshSucceeds(t, long_lived)
    \/ \E t \in Tasks : RefreshFails(t)
    \/ TokenAges

SpecTokens == InitTokens /\ [][NextTokens]_vars

\* find_json_content applied to every text of up to MaxJsonLen characters
InitScanner ==
    /\ InitProcessor("normalized", <<Pat("p1", <<"a", "b">>)>>)
    /\ InitAgentContext(1)
    /\ InitEnvironment(MaxTurnFed, {"returns"})
    /\ InitTurns
    /\ InitVendor
    /\ InitLibrary

NextScanner == \E text \in JsonTextsUpTo(MaxJsonLen) : FindJsonContentCall(text)

SpecScanner == InitScanner /\ [][NextScanner]_vars

\* normalize_and_map applied to every text of up to MaxText characters
InitNormalizer ==
    /\ InitProcessor("normalized", <<Pat("p1", <<"a", "b">>)>>)
    /\ InitAgentContext(1)
    /\ InitEnvironment(MaxTurnFed, {"returns"})
    /\ InitTurns
    /\ InitVendor
    /\ InitLibrary

NextNormalizer == \E text \in SeqsUpTo(MaxText) : NormalizeCall(text)

SpecNormalizer == InitNormalizer /\ [][NextNormalizer]_vars

\* extract applied to every text of ExtractTexts
InitExtractor ==
    /\ InitProcessor("normalized", <<Pat("p1", <<"a", "b">>)>>)
    /\ InitAgentContext(1)
    /\ InitEnvironment(MaxTurnFed, {"returns"})
    /\ InitTurns
    /\ InitVendor
    /\ InitLibrary

NextExtractor == \E text \in ExtractTexts : ExtractCall(text)

SpecExtractor == InitExtractor /\ [][NextExtractor]_vars

\* format_json_to_document called with every data of DocData and options
\* from 0 to MaxOption
InitFormatter ==
    /\ InitProcessor("normalized", <<Pat("p1", <<"a", "b">>)>>)
    /\ InitAgentContext(1)
    /\ InitEnvironment(MaxTurnFed, {"returns"})
    /\ InitTurns
    /\ InitVendor
    /\ InitLibrary

NextFormatter ==
    \E data \in DocData, indent_size, preview_length, max_length \in -1..MaxOption,
       show_list_indices \in BOOLEAN :
        FormatCall(FormatArgs(data, indent_size, preview_length, max_length,
                              show_list_indices))

SpecFormatter == InitFormatter /\ [][NextFormatter]_vars

\* a processor of each class, constructed from the same whitespace-free
\* patterns and given the same calls
InitPairOfProcessors ==
    /\ InitProcessor("normalized", <<Pat("p1", <<"a", "b">>)>>)
    /\ InitAgentContext(1)
    /\ InitEnvironment(MaxTurnFed, {"returns"})
    /\ InitTurns
    /\ InitVendor
    /\ InitAutomatonUse
    /\ construction = Constructed("standard", FALSE)
    /\ InitNormalize
    /\ InitTokenManager(0, FALSE)
    /\ InitScan
    /\ InitExtract
    /\ InitFormat
    /\ \E pats \in PairPatternSets : InitPair(pats)
    /\ InitRest(3)

NextPair ==
    \/ \E chunk \in PairChunks : PairProcessChunk(chunk)
    \/ PairFlushBuffer
    \/ PairResetStates

SpecPair == InitPairOfProcessors /\ [][NextPair]_vars

\* one make_request on a tool configured with up to MaxRetries retries
InitRestTool ==
    /\ InitProcessor("normalized", <<Pat("p1", <<"a", "b">>)>>)
    /\ InitAgentContext(1)
    /\ InitEnvironment(MaxTurnFed, {"returns"})
    /\ InitTurns
    /\ InitVendor
    /\ InitAutomatonUse
    /\ construction = Constructed("standard", FALSE)
    /\ InitNormalize
    /\ InitTokenManager(0, FALSE)
    /\ InitScan
    /\ InitExtract
    /\ InitFormat
    /\ InitPair(<<Pat("p1", <<"a", "b">>)>>)
    /\ \E max_retries \in 0..MaxRetries : InitRest(max_retries)

NextRestTool ==
    \/ MakeRequest
    \/ \E response \in Responses : Attempt(response)
    \/ BackoffEnds

SpecRestTool == InitRestTool /\ [][NextRestTool]_vars

\* ------------------------------------------ what the claims speak about
\* pattern p occurs in text at 0-based offset i
Occurs(text, p, i) ==
    /\ i >= 0
    /\ i + Len(p) <= Len(text)
    /\ SubSeq(text, i + 1, i + Len(p)) = p

\* the text a variant matches on, and the original offset of its i-th character
MatchedText(v, text) ==
    IF v = "normalized" THEN normalize_and_map(text).normalized_text ELSE text

OriginalOffset(v, text, i) ==
    IF v = "normalized" THEN normalize_and_map(text).index_map[i + 1] ELSE i

\* the pattern instances of a text, by their first and last original offsets
Instances(v, pats, text) ==
    LET ap == AutomatonPatterns(v, pats)
        mt == MatchedText(v, text)
    IN { [start |-> OriginalOffset(v, text, x[2]),
          end |-> OriginalOffset(v, text, x[2] + Len(ap[x[1]].str) - 1),
          name |-> ap[x[1]].name] :
            x \in { y \in (1..Len(ap)) \X (0..Len(mt)) :
                      Occurs(mt, ap[y[1]].str, y[2]) } }

ContainsPattern(v, pats, text) == Instances(v, pats, text) # {}

\* the instance that is complete first, the longest one if several end there
FirstCompleted(v, pats, text) ==
    CHOOSE x \in Instances(v, pats, text) :
        \A y \in Instances(v, pats, text) :
            x.end < y.end \/ (x.end = y.end /\ x.start <= y.start)

\* the text before the first marker, the whole text when there is none
TextBeforeFirstMarker(v, pats, text) ==
    IF ~ContainsPattern(v, pats, text) THEN text
    ELSE LET first == CHOOSE x \in Instances(v, pats, text) :
                         \A y \in Instances(v, pats, text) : x.start <= y.start
         IN SliceTo(text, first.start)

StartsWith(text, prefix) ==
    Len(prefix) <= Len(text) /\ SubSeq(text, 1, Len(prefix)) = prefix

LastCallMatched == last.op = "chunk" /\ ~last.raised /\ last.result.matched

\* C1: on a freshly constructed processor, while the text fed so far contains
\* no full pattern instance, no process_chunk call has reported a match, and
\* once flush_buffer has run the outputs returned so far concatenate to the
\* text fed so far.
C1_NoSplitEmission ==
    (resets = 0 /\ ~ContainsPattern(variant, patterns, fed)) =>
        /\ matchCount = 0
        /\ last.op = "flush" => emitted = fed

\* C2: when the first match of a fresh processor is reported for a pattern
\* instance that began in an earlier chunk, the outputs returned up to and
\* including that call are exactly the text before the instance's first
\* character, so no character of the instance has been emitted.
C2_NoPartialMarker ==
    (/\ resets = 0
     /\ LastCallMatched
     /\ matchCount = 1
     /\ ContainsPattern(variant, patterns, fed)
     /\ LET inst == FirstCompleted(variant, patterns, fed)
            before == Len(fed) - Len(last.chunk)
        IN inst.start < before /\ before <= inst.end)
    => emitted = SliceTo(fed, FirstCompleted(variant, patterns, fed).start)

\* the matches the automaton found in the combined buffer of the last call,
\* as (start, end, name) in the coordinates the automaton searched in
FoundInLastCall ==
    LET found == search_chunk(automaton, last.cs_before,
                              MatchedText(variant, last.combined)).found
        ap == AutomatonPatterns(variant, patterns)
    IN { [start |-> found[j][1] - Len(PatternStr(ap, found[j][2])) + 1,
          end |-> found[j][1],
          name |-> found[j][2]] : j \in 1..Len(found) }

\* C3: a call that reports a match reports the found match with the smallest
\* start offset, the one ending first among those that start there, and
\* splits the combined buffer at that offset.
C3_EarliestStart ==
    (resets = 0 /\ LastCallMatched) =>
        \E sel \in FoundInLastCall :
            /\ \A y \in FoundInLastCall :
                  sel.start < y.start \/ (sel.start = y.start /\ sel.end <= y.end)
            /\ last.result.pattern_name = sel.name
            /\ sel.start >= 0 =>
                  last.result.output =
                     SliceTo(last.combined,
                             OriginalOffset(variant, last.combined, sel.start))

\* C4: after a call that reports a match, output and text_with_tool_call
\* concatenate to the combined buffer, text_with_tool_call begins with the
\* characters of the reported pattern, the trailing buffer is empty and the
\* cursor is at the root.
C4_MatchSplit ==
    (resets = 0 /\ LastCallMatched) =>
        /\ last.result.output \o last.result.text_with_tool_call = last.combined
        /\ StartsWith(MatchedText(variant, last.result.text_with_tool_call),
                      PatternStr(AutomatonPatterns(variant, patterns),
                                 last.result.pattern_name))
        /\ trailing_buffer_original = <<>>
        /\ current_state = 0

\* C5: after reset_states, every process_chunk and flush_buffer call returns
\* what a freshly constructed processor returns for the same calls.
C5_IdempotentReset ==
    (resets > 0 /\ last.op \in {"chunk", "flush"}) =>
        /\ last.raised = fresh_last.raised
        /\ last.result = fresh_last.result

\* C6 as stated: the trailing buffer is always shorter than max_pattern_len,
\* in both variants.
C6_TrailingShorterThanPattern ==
    Len(trailing_buffer_original) < max_pattern_len

\* C6 as amended: the trailing buffer of the standard processor is shorter
\* than max_pattern_len, and that of the normalized processor holds fewer
\* than max_pattern_len characters that are not whitespace.
C6_TrailingBound ==
    IF variant = "standard"
    THEN Len(trailing_buffer_original) < max_pattern_len
    ELSE Len(normalize_and_map(trailing_buffer_original).normalized_text)
            < max_pattern_len

\* a call has just held back as many characters as the bound allows
C6_Witness ==
    /\ last.op = "chunk"
    /\ ~last.result.matched
    /\ max_pattern_len > 1
    /\ Len(MatchedText(variant, trailing_buffer_original)) = max_pattern_len - 1

\* C7: when the model stream of the first generation phase has ended and
\* finalize_detection did not fall back to its apology, the text events of
\* the phase concatenate to the model text before the first marker, or to
\* the whole model text when it holds no marker.
C7_DisplayText ==
    (/\ last_detection.op = "finalize"
     /\ context_state \in {TOOL_DETECTION, COMPLETING}
     /\ streaming_entry_count = 1
     /\ last_detection.detection.content # ParseApology)
    => text_events = TextBeforeFirstMarker(variant, patterns, fed)

\* C8: a detect_chunk or finalize_detection result that comes after a
\* detect_chunk of the same session saw a match carries no content, or the
\* fixed apology, never text of the model stream.
C8_NoContentAfterMatch ==
    last_detection.after_match =>
        last_detection.detection.content \in {NoneStr, <<>>, ParseApology}

\* after a match, a later detect_chunk got text back from the processor
C8_Witness ==
    /\ last_detection.op = "detect"
    /\ last_detection.after_match
    /\ last.op = "chunk"
    /\ Truthy(last.result.output)

GenerationStates ==
    {STREAMING, TOOL_DETECTION, EXECUTING_TOOLS, INTERMEDIATE, COMPLETING,
     COMPLETED}

AllowedTransitions ==
    { <<STREAMING, TOOL_DETECTION>>, <<STREAMING, COMPLETING>>,
      <<TOOL_DETECTION, EXECUTING_TOOLS>>, <<EXECUTING_TOOLS, INTERMEDIATE>>,
      <<INTERMEDIATE, STREAMING>>, <<COMPLETING, COMPLETED>> }

\* C9: a turn starts in Streaming, its context is always in exactly one of
\* the six states, and every change of state is one of the six transitions
\* of the generation state machine, none of which leaves Completed.
C9_StateMachine ==
    /\ context_state = STREAMING
    /\ [](context_state \in GenerationStates)
    /\ [][context_state' # context_state =>
             <<context_state, context_state'>> \in AllowedTransitions]_vars

\* a turn went round the tool loop and completed
C9_Witness ==
    /\ context_state = COMPLETED
    /\ gen_opened >= 1
    /\ streaming_entry_count > gen_opened

C11_HardCap ==
    /\ gen_opened <= max_streaming_iterations
    /\ streaming_entry_count <= max_streaming_iterations + 1

\* a turn with a failed generation used every entry the cap allows
C11_Witness ==
    /\ max_streaming_iterations >= 2
    /\ gen_opened = max_streaming_iterations
    /\ streaming_entry_count = max_streaming_iterations + 1
    /\ errors_raised >= 1

C13_UpstreamFailure ==
    /\ [][upstream_failed => gen_opened' = gen_opened]_vars
    /\ [](upstream_failed /\ errors_raised = 1 => apology_events = 1)

\* the calls of a round whose tool raised or is not registered
FailedCalls(res) ==
    {i \in 1..Len(res) : res[i].outcome \in {"raises", "unknown"}}

\* the calls of a round whose tool returned its response
SucceededCalls(res) ==
    {i \in 1..Len(res) : res[i].outcome = "returns"}

\* the positions of an entry in the history of a tool round
PositionsOf(entries, entry) ==
    {k \in 1..Len(entries) : entries[k] = entry}

C16_ExecutingToolsEntry ==
    /\ [][context_state' = EXECUTING_TOOLS /\ context_state # EXECUTING_TOOLS
             => context_state = TOOL_DETECTION]_vars
    /\ [](context_state = EXECUTING_TOOLS => current_tool_call >= 1)

\* ExecutingTools was entered
C16_Witness ==
    /\ context_state = EXECUTING_TOOLS
    /\ prev_state = TOOL_DETECTION
    /\ current_tool_call >= 1

\* C17: when Intermediate returns to Streaming the manual strategy has an
\* empty trailing buffer, the automaton cursor at the root, in_tool_call
\* false and an empty tool-call buffer.
C17_IntermediateReset ==
    [][context_state = INTERMEDIATE /\ context_state' = STREAMING
          => /\ trailing_buffer_original' = <<>>
             /\ current_state' = 0
             /\ ~in_tool_call'
             /\ tool_call_buffer' = <<>>]_vars

\* C18: no exception raised inside a handler leaves stream_step, and every
\* one of them was answered with a stop event carrying the apology.
C18_NoPropagation ==
    /\ pc # "propagated"
    /\ apology_events = errors_raised

\* a turn in which handlers raised more than once has completed
C18_Witness ==
    /\ context_state = COMPLETED
    /\ errors_raised >= 2
    /\ errors_raised < MaxCounted

\* C19: when the model stream ends in tool-call mode and the parser does not
\* return tool calls, finalize_detection returns NoMatch with the apology as
\* content, the apology is emitted as text, no tool round starts, and the
\* turn moves from Streaming to Completing and from there to Completed.
C19_ParseFailure ==
    /\ [][(/\ context_state = STREAMING
           /\ in_tool_call
           /\ last_detection'.op = "finalize"
           /\ last_detection'.detection.state # COMPLETE_MATCH)
          => /\ last_detection'.detection =
                   DetectionResult(NO_MATCH, ParseApology, 0)
             /\ text_events' = text_events \o ParseApology
             /\ context_state' = COMPLETING
             /\ results' = results]_vars
    /\ [][context_state = COMPLETING
             => context_state' \in {COMPLETING, COMPLETED} /\ results' = results]_vars
    /\ (context_state = COMPLETING) ~> (context_state = COMPLETED)

\* a turn whose tool call did not parse has completed with the apology
C19_Witness ==
    /\ context_state = COMPLETED
    /\ last_detection.op = "finalize"
    /\ last_detection.after_match
    /\ last_detection.detection.content = ParseApology
    /\ text_events = ParseApology

\* what _handle_streaming does with the strategy when no other run touches
\* it, from chunk k of the chunks on
RECURSIVE AloneFrom(_, _, _)
AloneFrom(st, chunks, k) ==
    IF k > Len(chunks) \/ st.raised THEN st
    ELSE LET pr == process_chunk_impl(variant, patterns, automaton, st.cs,
                                      max_pattern_len,
                                      st.trailing \o chunks[k])
             d == detect_chunk_result(st.in_tool, st.buffer, chunks[k],
                                      pr.result)
         IN IF pr.raised THEN [st EXCEPT !.raised = TRUE]
            ELSE AloneFrom([cs |-> pr.current_state,
                            trailing |-> pr.new_trailing,
                            in_tool |-> d.in_tool_call,
                            buffer |-> d.tool_call_buffer,
                            events |-> IF Truthy(d.detection.content)
                                       THEN st.events \o d.detection.content
                                       ELSE st.events,
                            raised |-> FALSE],
                           chunks, k + 1)

\* the run on a newly constructed agent that receives the chunks of run r and
\* has come as far as r has
Alone(r) ==
    LET st == AloneFrom([cs |-> 0, trailing |-> <<>>, in_tool |-> FALSE,
                         buffer |-> <<>>, events |-> <<>>, raised |-> FALSE],
                        r.chunks, 1)
        f == finalize_detection_result(st.in_tool, st.buffer,
                                       FlushResult(st.trailing),
                                       IF st.in_tool THEN r.parsed
                                       ELSE ParseError)
    IN IF r.pc = "done" /\ ~st.raised /\ ~r.raised
       THEN [st EXCEPT !.events = IF Truthy(f.detection.content)
                                  THEN @ \o f.detection.content ELSE @]
       ELSE st

\* C15: when two stream_step runs of the same agent interleave, each run
\* emits the text events, and ends in the mode, that it would on the same
\* model chunks with no other run on the agent.
C15_TurnLocalMatcherState ==
    \A t \in Turns :
       turns[t].pc # "idle" =>
          /\ turns[t].raised = Alone(turns[t]).raised
          /\ ~turns[t].raised =>
                /\ turns[t].events = Alone(turns[t]).events
                /\ turns[t].pc = "done" =>
                      turns[t].in_tool = Alone(turns[t]).in_tool

\* the arguments the claim expects for the argument text received
ExpectedArguments(args) ==
    IF args = <<>> THEN [kind |-> "dict", number |-> 0, raw |-> <<>>]
    ELSE IF json_loads(args).kind = "JSONDecodeError"
    THEN [kind |-> "dict_malformed", number |-> 0, raw |-> args]
    ELSE json_loads(args)

\* C20: on the first chunk since the last reset that carries the
\* completion signal after name fragments were received, when the call
\* returns, the vendor strategy returns CompleteMatch with one tool call
\* whose name is all name fragments received, in order, and whose arguments
\* are parsed from all argument fragments received, in order.
C20_VendorAccumulation ==
    (/\ vendor_last.op = "detect"
     /\ vendor_last.finish = "tool_calls"
     /\ ~vendor_last.raised
     /\ name_fragments # <<>>
     /\ Len(collected_tool_calls) <= 1)
    => /\ vendor_last.detection.state = COMPLETE_MATCH
       /\ Len(vendor_last.detection.tool_calls) = 1
       /\ vendor_last.detection.tool_calls[1].name = name_fragments
       /\ vendor_last.detection.tool_calls[1].arguments =
             ExpectedArguments(args_fragments)

\* ---------------------------------------------------------------- C21
\* the last detect_chunk call carried the completion signal with a function
\* name accumulated
CompletionWithName ==
    /\ vendor_last.op = "detect"
    /\ vendor_last.finish = "tool_calls"
    /\ Truthy(partial_name)

\* C21: when the completion signal arrives with a function name accumulated
\* and the accumulated argument text is not valid JSON, detect_chunk does not
\* raise and returns CompleteMatch with one tool call whose arguments map
\* _malformed to the raw accumulated text; with no argument text the
\* arguments are the empty map.
C21_MalformedFallback ==
    /\ (CompletionWithName /\ partial_args # <<>>
           /\ json_loads(partial_args).kind = "JSONDecodeError")
        => /\ ~vendor_last.raised
           /\ vendor_last.detection.state = COMPLETE_MATCH
           /\ vendor_last.detection.tool_calls =
                 <<VendorToolCall(partial_name,
                      [kind |-> "dict_malformed", number |-> 0,
                       raw |-> partial_args])>>
    /\ (CompletionWithName /\ partial_args = <<>>)
        => /\ ~vendor_last.raised
           /\ vendor_last.detection.state = COMPLETE_MATCH
           /\ vendor_last.detection.tool_calls =
                 <<VendorToolCall(partial_name,
                      [kind |-> "dict", number |-> 0, raw |-> <<>>])>>

\* a completion whose argument text, built from two fragments, does not parse
C21_Witness ==
    /\ CompletionWithName
    /\ Len(partial_args) = 2
    /\ json_loads(partial_args).kind = "JSONDecodeError"
    /\ vendor_last.detection.state = COMPLETE_MATCH

\* ---------------------------------------------------------------- C22
\* the (end index, name) pairs of the patterns whose literal ends in text
ExpectedMatches(pats, text) ==
    {<<x.end, x.name>> : x \in Instances("standard", pats, text)}

SeqToSet(found) == {found[k] : k \in 1..Len(found)}

C23_Resumable ==
    search_found = search_chunk(automaton, 0, searched).found

\* a match completed by a call that started in the middle of a pattern
C23_Witness ==
    /\ search_last.op = "search"
    /\ search_last.cs_before # 0
    /\ Len(search_last.chunk) < Len(searched)
    /\ search_last.found # <<>>
    /\ search_chunk(automaton, 0, search_last.chunk).found = <<>>

\* ---------------------------------------------------------------- C24
\* C24: after any sequence of search_chunk and reset_state calls
\* current_state is a node id of the automaton, and right after reset_state
\* it is the root.
C24_ValidState ==
    /\ current_state \in 0..(NumStates(automaton) - 1)
    /\ search_last.op = "reset" => current_state = 0

\* reset_state called with the cursor away from the root
C24_Witness ==
    /\ search_last.op = "reset"
    /\ search_last.cs_before # 0
    /\ current_state = 0

\* ---------------------------------------------------------------- C25
\* no pattern at all, or a pattern of length zero
InvalidPatternSet(pats) ==
    pats = <<>> \/ \E k \in 1..Len(pats) : pats[k].str = <<>>

\* C25: constructing the automaton or a buffered processor from an empty
\* pattern set or from a set that contains a zero-length pattern fails, so
\* no such object ever processes a chunk.
C25_RejectsInvalidPatterns ==
    InvalidPatternSet(patterns) => construction.raised

\* ---------------------------------------------------------------- C26
\* the last call was process_chunk on a processor with nothing held back and
\* the automaton at the root: the whole text arrived in this call
WholeTextCall ==
    /\ variant = "normalized"
    /\ last.op = "chunk"
    /\ last.cs_before = 0
    /\ last.trailing_before = <<>>

\* C26: whatever whitespace stands in a text around and between the
\* characters of a pattern, the normalized processor reports a match when
\* the text without its whitespace holds the pattern, and it splits output
\* from text_with_tool_call at the offset, in the original text, of the
\* first character of the reported pattern.
C26_RoundTrip ==
    WholeTextCall
    => /\ ContainsPattern("normalized", patterns, last.chunk)
          => (~last.raised /\ last.result.matched)
       /\ last.result.matched
          => \E x \in Instances("normalized", patterns, last.chunk) :
                /\ x.name = last.result.pattern_name
                /\ \A y \in Instances("normalized", patterns, last.chunk) :
                      x.end <= y.end
                /\ last.result.output = SliceTo(last.chunk, x.start)
                /\ last.result.text_with_tool_call =
                      SliceFrom(last.chunk, x.start)

\* a match behind leading whitespace and text: the pattern's offset in the
\* original text is not its offset in the normalized text
C26_Witness ==
    /\ WholeTextCall
    /\ last.result.matched
    /\ Len(last.result.output) >= 2
    /\ \E k \in 1..Len(last.result.output) : isspace(last.result.output[k])
    /\ \E k \in 1..Len(last.result.output) : ~isspace(last.result.output[k])

\* ---------------------------------------------------------------- C27
\* C27: for every text normalize_and_map returns a normalized text and an
\* index map of the same length, the map strictly increasing, every entry an
\* offset of the original text, and the original character at that offset is
\* the normalized character and is not whitespace.
C27_IndexMap ==
    LET normalized_text == normalize_returned.normalized_text
        index_map == normalize_returned.index_map
    IN /\ Len(index_map) = Len(normalized_text)
       /\ \A i \in 1..(Len(index_map) - 1) : index_map[i] < index_map[i + 1]
       /\ \A i \in 1..Len(index_map) :
             /\ 0 <= index_map[i]
             /\ index_map[i] < Len(normalize_text)
             /\ normalize_text[index_map[i] + 1] = normalized_text[i]
             /\ normalized_text[i] # " "

\* a text with whitespace before, between and after its other characters
C27_Witness ==
    /\ Len(normalize_text) = 4
    /\ normalize_text[1] = " "
    /\ normalize_text[4] = " "
    /\ Len(normalize_returned.normalized_text) = 2

\* ---------------------------------------------------------------- C28
\* every refresh so far succeeded with a token outside the refresh buffer,
\* and no token has aged into the buffer since
RefreshesSucceeded ==
    /\ expiries = 0
    /\ \A k \in 1..Len(refresh_history) : refresh_history[k] = "ok"

\* C28: when tasks call get_token while the token is expired and the refresh
\* succeeds with a token outside the refresh buffer, one refresh request is
\* sent, by one task; the tasks that waited for the lock skip the refresh,
\* and every caller receives the new token.
C28_SerializedRefresh ==
    RefreshesSucceeded
    => /\ requests_sent <= 1
       /\ Cardinality({t \in Tasks : task_pc[t] = "posting"
                                     \/ task_path[t] = "refreshed"}) <= 1
       /\ \A t \in Tasks :
             task_pc[t] = "returned"
             => /\ requests_sent = 1
                /\ access_token = 1
                /\ task_token[t] = 1
                /\ task_path[t] \in {"refreshed", "skipped", "valid"}

\* one task refreshed and two that waited for the lock skipped the refresh
C28_Witness ==
    /\ RefreshesSucceeded
    /\ \E t \in Tasks : task_path[t] = "refreshed"
    /\ Cardinality({t \in Tasks : task_path[t] = "skipped"}) >= 2
    /\ \A t \in Tasks : task_pc[t] = "returned"

\* ---------------------------------------------------------------- C29
\* character i of text follows a backslash that is not itself escaped
RECURSIVE Escaped(_, _)
Escaped(text, i) ==
    /\ i > 1
    /\ text[i - 1] = "\\"
    /\ ~Escaped(text, i - 1)

\* character i lies inside a double-quoted string literal, or delimits one
InStringLiteral(text, i) ==
    Cardinality({k \in 1..i : text[k] = "\"" /\ ~Escaped(text, k)}) % 2 = 1

\* what character i adds to the delimiter depth
DepthChange(text, i) ==
    IF InStringLiteral(text, i) THEN 0
    ELSE IF text[i] \in Openers THEN 1
    ELSE IF text[i] \in Closers THEN -1
    ELSE 0

\* the delimiter depth after character i, a closer at depth 0 closing nothing
RECURSIVE DepthAfter(_, _)
DepthAfter(text, i) ==
    IF i = 0 THEN 0
    ELSE Max(0, DepthAfter(text, i - 1) + DepthChange(text, i))

\* text[i..j] opens at depth 0 and j is where the depth is first 0 again
BalancedSpan(text, i, j) ==
    /\ i < j
    /\ DepthAfter(text, i - 1) = 0
    /\ DepthAfter(text, i) = 1
    /\ DepthAfter(text, j) = 0
    /\ \A m \in i..(j - 1) : DepthAfter(text, m) > 0

\* the top-level balanced spans, in text order
TopLevelSpans(text) ==
    LET spans == {x \in (1..Len(text)) \X (1..Len(text)) :
                     BalancedSpan(text, x[1], x[2])}
        starts == SortedSeq({x[1] : x \in spans})
    IN [k \in 1..Len(starts) |->
           LET x == CHOOSE y \in spans : y[1] = starts[k]
           IN SubSeq(text, x[1], x[2])]

\* C29: find_json_content counts delimiter depth outside double-quoted
\* string literals only, and returns every top-level balanced {...} or
\* [...] span of the text, in order.
C29_BalancedSpans ==
    scan_returned = TopLevelSpans(scan_text)

\* the text [{"name":"a","arguments":{x:1}};{"name":"b","arguments":{y:2}}]
UnquotedKeysAndSemicolon ==
    ToolCallList(<<>>, "a", FALSE, <<";">>, "b", FALSE, <<>>)

\* the value of the member "name" of a tool call, "" when it has none
CallName(call) ==
    IF call.kind = "dict" /\ \E i \in 1..Len(call.items) :
                                 call.items[i].key = "name"
    THEN LET i == CHOOSE i \in 1..Len(call.items) : call.items[i].key = "name"
         IN call.items[i].value.text
    ELSE ""

CallNames(tool_calls) == [i \in 1..Len(tool_calls) |-> CallName(tool_calls[i])]

\* C30: extract parses the text with unquoted argument names and a
\* semicolon between the two items of the list into exactly two tool
\* calls, named a and b, in that order
C30_ArgumentRepair ==
    extract_text = UnquotedKeysAndSemicolon
        => /\ ~extract_returned.error
           /\ Len(extract_returned.tool_calls) = 2
           /\ CallNames(extract_returned.tool_calls) = <<"a", "b">>

C30_Witness ==
    /\ extract_text = UnquotedKeysAndSemicolon
    /\ ~json5_loads(UnquotedKeysAndSemicolon).ok
    /\ json5_loads(preprocess_json(UnquotedKeysAndSemicolon)).ok
    /\ CallNames(extract_returned.tool_calls) = <<"a", "b">>

\* C31: format_json_to_document raises ValueError and produces no output
\* when indent_size < 1, preview_length < 1 or max_length <= preview_length,
\* whatever the data
C31_RejectsInvalidOptions ==
    (\/ format_args.indent_size < 1
     \/ format_args.preview_length < 1
     \/ format_args.max_length <= format_args.preview_length)
        => /\ format_outcome = "ValueError"
           /\ format_output = <<>>

C31_Witness ==
    /\ format_args.indent_size >= 1
    /\ format_args.preview_length >= 1
    /\ format_args.max_length = format_args.preview_length
    /\ format_args.data.kind = "circular"
    /\ format_outcome = "ValueError"

\* C32: when finalize_detection has handed the tool-call buffer to the
\* parser, the buffer is the raw text of the stream from the first character
\* of a matched marker to the end of the stream, each character once (the
\* marker read as any instance the stream contains)
C32_ToolCallBuffer ==
    (in_tool_call /\ last_detection.op = "finalize")
        => \E x \in Instances(variant, patterns, fed) :
               tool_call_buffer = SliceFrom(fed, x.start)

\* the records of a round by call: for each call from k on, its assistant
\* record and then its error message or its tool-result record
RECURSIVE RecordsByCall(_, _)
RecordsByCall(res, k) ==
    IF k > Len(res) THEN <<>>
    ELSE <<ToolCallsEntry(k),
           IF k \in FailedCalls(res) THEN ErrorEntry(k) ELSE ToolResultEntry(k)>>
         \o RecordsByCall(res, k + 1)

\* C33: whatever the order in which the tools of a round finished, the round
\* appends for each call, in the order of the calls, its assistant record
\* immediately followed by its tool-result record or its error message, and
\* then moves to Intermediate
C33_RecordsByCall ==
    [][(/\ pc = "tools"
        /\ pc' # "tools"
        /\ \A i \in 1..Len(results) : results[i].outcome # "unusable")
       => /\ tool_entries' = RecordsByCall(results, 1)
          /\ context_state' = INTERMEDIATE]_vars

\* a round recorded after its second call had finished before its first,
\* one of the two having failed
C33_Witness ==
    /\ context_state = INTERMEDIATE
    /\ finished_out_of_order
    /\ Len(tool_entries) = 4
    /\ tool_entries[1] = ToolCallsEntry(1)
    /\ tool_entries[3] = ToolCallsEntry(2)
    /\ tool_entries[2].call = 1
    /\ tool_entries[4].call = 2
    /\ tool_entries[2].kind # tool_entries[4].kind

\* C34: when a generation phase has ended in ToolDetection or in Completing,
\* it has appended exactly one assistant message, whose content is the
\* concatenation of the text events of the phase, if it emitted any text
\* event, and no assistant text message otherwise
C34_HistoryMatchesEvents ==
    context_state \in {TOOL_DETECTION, COMPLETING}
        => phase_messages = IF text_events # <<>> THEN <<text_events>>
                            ELSE <<>>

\* phases that emitted text have ended both ways, and so has one without text
C34_Witness ==
    /\ last_detection.op = "finalize"
    /\ context_state = TOOL_DETECTION
    /\ text_events # <<>>
    /\ phase_messages = <<text_events>>

\* C35: once a stop event has been emitted in a turn, stream_step emits no
\* text or status event afterwards
C35_NothingAfterStop == ~event_after_stop

\* C36: on patterns and chunks without whitespace, every call returns the
\* same result from the normalized processor as from the standard one (the
\* matched flag, the pattern name, the output and text_with_tool_call), and
\* neither raises
C36_NormalizedRefinesStandard ==
    /\ ~pair_last.standard.raised
    /\ ~pair_last.normalized.raised
    /\ pair_last.normalized.result.matched = pair_last.standard.result.matched
    /\ pair_last.normalized.result.pattern_name
          = pair_last.standard.result.pattern_name
    /\ pair_last.normalized.result.output = pair_last.standard.result.output
    /\ pair_last.normalized.result.text_with_tool_call
          = pair_last.standard.result.text_with_tool_call

\* the responses after which make_request may send another request
Retryable == ServerErrors \cup {"ClientError"}

============================================================================
